---- MODULE Spec2Model ----
(***************************************************************************)
(* A model of summary-tasks-bot: the conversation engine (the App state    *)
(* machine of internal/app and its refactoring CmdHandler of               *)
(* internal/app/cmdHandlers), the dispatch scheduler, UserService and the  *)
(* preference store.                                                       *)
(*                                                                         *)
(* Message texts are sequences of tokens (the fields of the text split on  *)
(* blanks and commas); a token is a string.  Telegram message ids and the  *)
(* deletion of old prompts are not modelled (LastMsgID has no effect on    *)
(* the store or on the session's stage).  Timestamps are Unix seconds.     *)
(***************************************************************************)
EXTENDS Integers, Sequences, FiniteSets, TLC

VARIABLES
    store,      \* repository: user id -> UserSettings (absent = no record)
    convs,      \* session map: chat id -> conversationState (absent = no session)
    impl,       \* which engine serves the event loop: "App" or "CmdHandler"
    repoKind,   \* which repository backs the store: "file" or "postgres"
    clock,      \* wall clock, Unix seconds
    sched,      \* scheduler goroutine: pc, the tick's time, the users still to serve
    sent,       \* messages sent by the last step: <<chat, message key>>
    gen,        \* content-generation calls made by the last step: <<kind, category>>
    ev,         \* the event handled by the last step
    hist,       \* history: per chat, what the open session has seen (see Hist0)
    halted      \* the process has exited (log.Fatal or an unrecovered panic)

vars == <<store, convs, impl, repoKind, clock, sched, sent, gen, ev, hist, halted>>

----------------------------------------------------------------------------
(* Bounds of the model *)

\* longest message text, in tokens, the model feeds to the engine
MaxTokens == 2

\* the sessions one chat opens in a run of the topic flows, or beside the scheduler
MaxFlows == 1

\* the sessions one chat opens in a run of the on-demand flows
MaxRequests == 4

\* the times the user of one session asks to go back
MaxBacks == 1

----------------------------------------------------------------------------
(* Configuration: options.json, tariff.json, users *)

Chats == {1, 2}

\* m.Chat.Username of each chat; chat 2 is the privileged user
Username == (1 :> "alice") @@ (2 :> "omilinov")

adminUserName == "omilinov"

categoryOptions == <<"Tech", "Science">>

infoOptions == <<"News", "Facts">>

CustomOption == "CustomOption"      \* the "own category" entry of the catalog

CustomPrefix == "#"                 \* the tag put before a custom category

Tariffs ==
    [base |-> [Schedule |-> [FrequencyMinutes |-> 60, TimeRange |-> <<"08:00", "23:00">>],
               Limits |-> [GetNewsNowPerDay |-> 3, GetLast24hNewPerDay |-> 1,
                           CategoryLimit |-> 2, InfoTypeLimit |-> 1],
               AllowCustomCategory |-> FALSE],
     plus |-> [Schedule |-> [FrequencyMinutes |-> 30, TimeRange |-> <<"22:00", "06:00">>],
               Limits |-> [GetNewsNowPerDay |-> 4, GetLast24hNewPerDay |-> 2,
                           CategoryLimit |-> 2, InfoTypeLimit |-> 2],
               AllowCustomCategory |-> FALSE],
     premium |-> [Schedule |-> [FrequencyMinutes |-> 30, TimeRange |-> <<"08:00", "23:00">>],
                  Limits |-> [GetNewsNowPerDay |-> 4, GetLast24hNewPerDay |-> 2,
                              CategoryLimit |-> 2, InfoTypeLimit |-> 1],
                  AllowCustomCategory |-> TRUE]]

\* cfg.Tariffs[name] with Go's "comma ok"
HasTariff(name) == name \in DOMAIN Tariffs

\* tariff, ok := cfg.Tariffs[name]; if !ok { tariff = cfg.Tariffs["base"] }
TariffOrBase(name) == IF HasTariff(name) THEN Tariffs[name] ELSE Tariffs["base"]

----------------------------------------------------------------------------
(* Maps and lists *)

EmptyMap == [x \in {} |-> <<>>]

Put(f, k, v) == [x \in (DOMAIN f) \cup {k} |-> IF x = k THEN v ELSE f[x]]

\* a delete that removes nothing
DelNothing(f, k) == f

Del(f, k) == [x \in (DOMAIN f) \ {k} |-> f[x]]

\* m[k] of a Go map of slices: nil (the empty slice) for a missing key
Lookup(m, k) == IF k \in DOMAIN m THEN m[k] ELSE <<>>

Range(s) == {s[i] : i \in 1..Len(s)}

NoDup(s) == \A i, j \in 1..Len(s) : i # j => s[i] # s[j]

\* every order in which Go may range over the keys of a map
Orders(S) == {s \in [1..Cardinality(S) -> S] : Range(s) = S}

\* append each element of add that is not yet in base, while cap allows
RECURSIVE AppendNew(_, _, _)
AppendNew(base, add, cap) ==
    IF add = <<>> THEN base
    ELSE IF Head(add) \notin Range(base) /\ Len(base) < cap
         THEN AppendNew(Append(base, Head(add)), Tail(add), cap)
         ELSE AppendNew(base, Tail(add), cap)

\* append each element of add that is not yet in base
RECURSIVE Merge(_, _)
Merge(base, add) ==
    IF add = <<>> THEN base
    ELSE IF Head(add) \notin Range(base)
         THEN Merge(Append(base, Head(add)), Tail(add))
         ELSE Merge(base, Tail(add))

----------------------------------------------------------------------------
(* Texts *)

Cancel == "Otmena"
Back == "Nazad"
Done == "Gotovo"
Continue == "Prodolzhit"

\* strings.EqualFold on the words the engine compares: upper and lower case
Fold(w) ==
    CASE w = "otmena" -> "Otmena"
      [] w = "nazad" -> "Nazad"
      [] w = "gotovo" -> "Gotovo"
      [] w = "ALICE" -> "alice"
      [] w = "OMILINOV" -> "omilinov"
      [] OTHER -> w

EqualFoldWord(a, b) == Fold(a) = Fold(b)

\* a comparison that tells upper from lower case
EqualExactly(text, word) == text = <<word>>

\* strings.EqualFold(m.Text, word)
EqualFold(text, word) == Len(text) = 1 /\ EqualFoldWord(text[1], word)

\* m.Text == word
TextIs(text, word) == text = <<word>>

AtoiTable == ("0" :> 0) @@ ("1" :> 1) @@ ("2" :> 2) @@ ("3" :> 3) @@ ("4" :> 4) @@ ("9" :> 9)

\* strconv.Atoi on one token
Atoi(f) == IF f \in DOMAIN AtoiTable THEN [ok |-> TRUE, n |-> AtoiTable[f]]
           ELSE [ok |-> FALSE, n |-> 0]

\* strconv.Atoi(strings.TrimSpace(m.Text))
AtoiText(text) == IF Len(text) = 1 THEN Atoi(text[1]) ELSE [ok |-> FALSE, n |-> 0]

RECURSIVE parseSel(_, _, _, _, _)
parseSel(fields, opts, limit, out, seen) ==
    IF fields = <<>> THEN out
    ELSE LET idx == Atoi(Head(fields)) IN
         IF ~idx.ok \/ idx.n < 1 \/ idx.n > Len(opts) \/ idx.n \in seen
         THEN parseSel(Tail(fields), opts, limit, out, seen)
         ELSE LET out2 == Append(out, opts[idx.n]) IN
              IF Len(out2) = limit THEN out2
              ELSE parseSel(Tail(fields), opts, limit, out2, seen \cup {idx.n})

parseSelection(text, opts, limit) == parseSel(text, opts, limit, <<>>, {})

addCustomOption(opts, allow) == IF allow THEN Append(opts, CustomOption) ELSE opts

\* "#" + strings.Join(words, " "): "#other" stands for every name but "#my"
CustomName(words) == IF words = <<"my">> THEN "#my" ELSE "#other"

----------------------------------------------------------------------------
(* model.UserSettings and the repository *)

ZeroSettings ==
    [UserID |-> 0, UserName |-> "", Active |-> FALSE, Topics |-> EmptyMap, Tariff |-> "",
     LastScheduledSent |-> 0, LastGetNewsNow |-> 0, GetNewsNowCount |-> 0,
     LastGetLast24h |-> 0, GetLast24hCount |-> 0]

\* errors.Is(err, os.ErrNotExist)
IsNotExist(err) == err = "ErrNotExist"

\* what a repository keeps of a record: the Postgres table has no columns for
\* the last-24h timestamp and counter, so a later Get yields their zero values
Persisted(kind, rec) ==
    IF kind = "postgres"
    THEN [rec EXCEPT !.LastGetLast24h = 0, !.GetLast24hCount = 0]
    ELSE rec

\* repo.Get: the file repository answers os.ErrNotExist for a missing record, the
\* Postgres repository answers errors.New("not found"); fault is a storage fault
repoGet(st, kind, userID, fault) ==
    IF fault THEN [err |-> "fault", val |-> ZeroSettings]
    ELSE IF userID \in DOMAIN st THEN [err |-> "nil", val |-> st[userID]]
    ELSE [err |-> IF kind = "file" THEN "ErrNotExist" ELSE "not found", val |-> ZeroSettings]

\* repo.Save: the file repository replaces the in-memory record before it writes
\* the file, so a failed write still leaves the new record in memory
repoSave(st, kind, rec, fault) ==
    IF fault /\ kind = "postgres" THEN [err |-> "fault", st |-> st]
    ELSE [err |-> IF fault THEN "fault" ELSE "nil", st |-> Put(st, rec.UserID, Persisted(kind, rec))]

\* repo.List, in the order the repository happens to return the records
repoList(st, order) == [i \in 1..Len(order) |-> st[order[i]]]

----------------------------------------------------------------------------
(* Time *)

DaySeconds == 24 * 60 * 60

\* now.YearDay() != last.YearDay() || now.Year() != last.Year()
OtherDay(now, last) == (now \div DaySeconds) # (last \div DaySeconds)

\* time.Parse("15:04", part)
timeParse(part) ==
    CASE part = "08:00" -> [ok |-> TRUE, hour |-> 8, minute |-> 0]
      [] part = "23:00" -> [ok |-> TRUE, hour |-> 23, minute |-> 0]
      [] part = "22:00" -> [ok |-> TRUE, hour |-> 22, minute |-> 0]
      [] part = "06:00" -> [ok |-> TRUE, hour |-> 6, minute |-> 0]
      [] OTHER -> [ok |-> FALSE, hour |-> 0, minute |-> 0]

\* a window that is always open
AnyTime(now, rng) == TRUE

\* rng is the result of strings.Split(rng, "-")
inTimeRange(now, rng) ==
    IF Len(rng) # 2 THEN TRUE
    ELSE LET p1 == timeParse(rng[1])
             p2 == timeParse(rng[2])
         IN IF ~p1.ok \/ ~p2.ok THEN TRUE
            ELSE LET midnight == (now \div DaySeconds) * DaySeconds
                     start == midnight + p1.hour * 3600 + p1.minute * 60
                     end == midnight + p2.hour * 3600 + p2.minute * 60
                 IN IF end < start
                    THEN now > start \/ now < end
                    ELSE ~(now < start) /\ ~(now > end)

----------------------------------------------------------------------------
(* The working state of one handler call *)

(* A handler is an operator from a working state w, a message m and an     *)
(* environment e to the working state it leaves:                           *)
(*   w.store   the repository                                              *)
(*   w.cs      the session the handler works on (the *conversationState)   *)
(*   w.live    whether the session map holds w.cs for m.Chat               *)
(*   w.sent    the messages sent so far, w.gen the generation calls so far *)
(*   w.trace   what the handler did to the session's topics and the store  *)
(*   w.halted  the process has exited                                      *)
(* m = [Chat, Text]; e = [now, kind, fault, perm, rev]: the clock, the     *)
(* repository kind, the call that fails in this step ("none", "get",       *)
(* "save", "list", "gen"), the order in which Go ranges over a map and     *)
(* whether List returns the records in reverse.                            *)

\* every category name a topics map of the model can hold
AllCats == <<"Tech", "Science", "#my", "#other">>

IdPerm == [i \in 1..Len(AllCats) |-> i]

\* the keys of map mp in the iteration order that perm stands for
KeysInOrder(mp, perm) ==
    LET inOrder(k) == k \in DOMAIN mp
    IN SelectSeq([i \in 1..Len(perm) |-> AllCats[perm[i]]], inOrder)

\* the users of a store in the order List returns them: by id, or reversed
KeysInOrderOf(st, rev) ==
    LET S == DOMAIN st
        canon == CHOOSE q \in Orders(S) : \A i, j \in 1..Len(q) : i < j => q[i] < q[j]
    IN IF rev THEN [i \in 1..Len(canon) |-> canon[Len(canon) + 1 - i]] ELSE canon

ZeroConv ==
    [Cmd |-> "", Stage |-> "", PrevStage |-> "", Step |-> 0, CurrentCat |-> "", OldCat |-> "",
     Topics |-> EmptyMap, UpdateTopics |-> FALSE, DeleteTopics |-> FALSE,
     CategoryLimit |-> 0, InfoLimit |-> 0, AvailableCats |-> <<>>, Settings |-> <<>>,
     AllowCustomCategory |-> FALSE, SelectedInfos |-> <<>>, SelectedCats |-> <<>>,
     TargetUser |-> "", NewTariff |-> ""]

\* conversationState.setStage
setStage(cs, stage) == [cs EXCEPT !.PrevStage = cs.Stage, !.Stage = stage]

\* conversationState.back
back(cs) == IF cs.PrevStage # "" THEN [cs EXCEPT !.Stage = cs.PrevStage, !.PrevStage = ""] ELSE cs

\* one entry of w.trace
Did(op, user, cat, infos, old) == [op |-> op, user |-> user, cat |-> cat, infos |-> infos, old |-> old]

Send(w, chat, key) == [w EXCEPT !.sent = Append(@, <<chat, key>>)]

Note(w, what) == [w EXCEPT !.trace = Append(@, what)]

\* a handler that forgets to remove the session
DropNothing(w) == w

\* delete(a.convs, m.Chat.ID)
Drop(w) == [w EXCEPT !.live = FALSE]

\* a.convs[m.Chat.ID] = conv
Open(w, conv) == [w EXCEPT !.cs = conv, !.live = TRUE]

----------------------------------------------------------------------------
(* UserService *)

\* UserService.Start
UserService_Start(w, userID, userName, e) ==
    LET g == repoGet(w.store, e.kind, userID, e.fault = "get") IN
    IF g.err # "nil" /\ ~IsNotExist(g.err) THEN [w |-> w, err |-> g.err]
    ELSE LET s0 == IF g.err # "nil"
                   THEN [ZeroSettings EXCEPT !.UserID = userID, !.UserName = userName]
                   ELSE g.val
             s1 == IF s0.Tariff = "" THEN [s0 EXCEPT !.Tariff = "base"] ELSE s0
             s2 == [s1 EXCEPT !.Active = TRUE]
             r == repoSave(w.store, e.kind, s2, e.fault = "save")
         IN [w |-> Note([w EXCEPT !.store = r.st], Did("start", userID, "", <<>>, "")), err |-> r.err]

\* UserService.Stop
UserService_Stop(w, userID, e) ==
    LET g == repoGet(w.store, e.kind, userID, e.fault = "get") IN
    IF g.err # "nil" THEN [w |-> w, err |-> g.err]
    ELSE LET r == repoSave(w.store, e.kind, [g.val EXCEPT !.Active = FALSE], e.fault = "save")
         IN [w |-> Note([w EXCEPT !.store = r.st], Did("stop", userID, "", <<>>, "")), err |-> r.err]

\* UserService.ActiveUsers
UserService_ActiveUsers(st, order) ==
    LET isActive(u) == u.Active IN SelectSeq(repoList(st, order), isActive)

\* the ChatCompletion calls of one digest: one per info type, stopping at a failure
GenCalls(category, infos, fails) ==
    IF fails THEN IF infos = <<>> THEN <<>> ELSE <<<<"completion", category, infos[1]>>>>
    ELSE [i \in 1..Len(infos) |-> <<"completion", category, infos[i]>>]

\* UserService.GetNewsMultiInfo: one random category, all its info types
UserService_GetNewsMultiInfo(w, u, e) ==
    IF DOMAIN u.Topics = {} THEN [w |-> w, err |-> "no topics"]
    ELSE LET category == KeysInOrder(u.Topics, e.perm)[1]
             infos == u.Topics[category]
         IN IF ~HasTariff(u.Tariff) THEN [w |-> [w EXCEPT !.halted = TRUE], err |-> "fatal"]
            ELSE LET fails == e.fault = "gen" /\ infos # <<>>
                 IN [w |-> [w EXCEPT !.gen = @ \o GenCalls(category, infos, fails)],
                     err |-> IF fails THEN "gen" ELSE "nil"]

\* UserService.GetNewsForCategoryMultiInfo
UserService_GetNewsForCategoryMultiInfo(w, u, category, e) ==
    LET infos == Lookup(u.Topics, category) IN
    IF infos = <<>> THEN [w |-> w, err |-> "no infos for category"]
    ELSE IF ~HasTariff(u.Tariff) THEN [w |-> [w EXCEPT !.halted = TRUE], err |-> "fatal"]
    ELSE LET fails == e.fault = "gen"
         IN [w |-> [w EXCEPT !.gen = @ \o GenCalls(category, infos, fails)],
             err |-> IF fails THEN "gen" ELSE "nil"]

\* UserService.GetLast24hNewsForCategory
UserService_GetLast24hNewsForCategory(w, u, category, e) ==
    IF ~HasTariff(u.Tariff) THEN [w |-> [w EXCEPT !.halted = TRUE], err |-> "fatal"]
    ELSE [w |-> [w EXCEPT !.gen = Append(@, <<"responses", category, "">>)],
          err |-> IF e.fault = "gen" THEN "gen" ELSE "nil"]

----------------------------------------------------------------------------
(* App: the engine of internal/app *)

\* the confirmation and the first digest that follow a first-time save
FirstDigest(w, m, settings, e) ==
    LET w1 == Send(w, m.Chat, "settings_saved")
        g == UserService_GetNewsMultiInfo(w1, settings, e)
    IN IF g.err = "nil" THEN Send(g.w, m.Chat, "digest") ELSE g.w

\* the body that App.saveTopics and CmdHandler.saveTopics share; update says whether
\* the record is read and only its topics replaced
saveTopicsBody(w, m, e, update) ==
    IF update
    THEN LET g == repoGet(w.store, e.kind, m.Chat, e.fault = "get") IN
         IF g.err # "nil" /\ ~IsNotExist(g.err) THEN Drop(w)
         ELSE LET s0 == IF g.err # "nil"
                        THEN [ZeroSettings EXCEPT !.UserID = m.Chat, !.UserName = Username[m.Chat]]
                        ELSE g.val
                  settings == [s0 EXCEPT !.Topics = w.cs.Topics]
                  r == repoSave(w.store, e.kind, settings, e.fault = "save")
                  w1 == Note([w EXCEPT !.store = r.st], Did("save", m.Chat, "", <<>>, ""))
              IN Drop(IF r.err = "nil" THEN Send(w1, m.Chat, "settings_updated") ELSE w1)
    ELSE LET settings == [ZeroSettings EXCEPT !.UserID = m.Chat, !.UserName = Username[m.Chat],
                                              !.Topics = w.cs.Topics, !.Tariff = "base",
                                              !.LastScheduledSent = e.now, !.Active = TRUE]
             r == repoSave(w.store, e.kind, settings, e.fault = "save")
             w1 == Note([w EXCEPT !.store = r.st], Did("save", m.Chat, "", <<>>, ""))
         IN Drop(IF r.err = "nil" THEN FirstDigest(w1, m, settings, e) ELSE w1)

\* App.saveTopics
App_saveTopics(w, m, e) == saveTopicsBody(w, m, e, w.cs.UpdateTopics)

\* a setUserTariff that stores the chosen name without looking it up in the tariff table
setUserTariff_unchecked(w, username, tariff, e) ==
    IF e.fault = "list" THEN [w |-> w, err |-> "fault"]
    ELSE LET users == KeysInOrderOf(w.store, e.rev)
             named(u) == EqualFoldWord(w.store[u].UserName, username)
             found == SelectSeq(users, named)
         IN IF found = <<>> THEN [w |-> w, err |-> "user not found"]
            ELSE LET user == [w.store[found[1]] EXCEPT !.Tariff = tariff]
                     r == repoSave(w.store, e.kind, user, e.fault = "save")
                 IN [w |-> Note([w EXCEPT !.store = r.st], Did("save", user.UserID, "", <<>>, "")),
                     err |-> r.err]

\* App.setUserTariff and CmdHandler.setUserTariff; the record of a user is looked up by name, ignoring case
setUserTariff(w, username, tariff, e) ==
    IF e.fault = "list" THEN [w |-> w, err |-> "fault"]
    ELSE LET users == KeysInOrderOf(w.store, e.rev)
             named(u) == EqualFoldWord(w.store[u].UserName, username)
             found == SelectSeq(users, named)
         IN IF found = <<>> THEN [w |-> w, err |-> "user not found"]
            ELSE IF ~HasTariff(tariff) THEN [w |-> w, err |-> "unknown tariff"]
            ELSE LET user == [w.store[found[1]] EXCEPT !.Tariff = tariff]
                     r == repoSave(w.store, e.kind, user, e.fault = "save")
                 IN [w |-> Note([w EXCEPT !.store = r.st], Did("save", user.UserID, "", <<>>, "")),
                     err |-> r.err]

\* the end of stageInfoTypes: the current category is complete
App_commitCategory(w, m, e) ==
    LET cs == w.cs
        topics0 == IF cs.OldCat # "" THEN Del(cs.Topics, cs.OldCat) ELSE cs.Topics
        existing == Merge(Lookup(topics0, cs.CurrentCat), cs.SelectedInfos)
        cs1 == [cs EXCEPT !.Topics = Put(topics0, cs.CurrentCat, existing), !.OldCat = "",
                          !.SelectedInfos = <<>>, !.Step = cs.Step + 1]
        w1 == Note([w EXCEPT !.cs = cs1],
                   Did("commit", m.Chat, cs.CurrentCat, cs.SelectedInfos, cs.OldCat))
    IN IF cs1.Step >= cs1.CategoryLimit THEN App_saveTopics(w1, m, e)
       ELSE IF Len(cs1.SelectedCats) > 0 /\ cs1.Step < Len(cs1.SelectedCats)
       THEN Send([w1 EXCEPT !.cs = [cs1 EXCEPT !.OldCat = cs1.SelectedCats[cs1.Step + 1],
                                               !.Stage = "stageCategory"]],
                 m.Chat, "prompt_choose_new")
       ELSE Send([w1 EXCEPT !.cs = setStage(cs1, "stageCategory")], m.Chat, "prompt_choose_category")

\* App.continueUpdateFlow, case stageChooseCategoryCount
App_stageChooseCategoryCount(w, m, e) ==
    LET count == AtoiText(m.Text) IN
    IF ~count.ok \/ count.n < 1 \/ count.n > w.cs.CategoryLimit
    THEN Send(w, m.Chat, "prompt_choose_count")
    ELSE Send([w EXCEPT !.cs = setStage([w.cs EXCEPT !.CategoryLimit = count.n], "stageCategory")],
              m.Chat, "prompt_choose_category")

\* App.continueUpdateFlow, case stageUpdateChoice
App_stageUpdateChoice(w, m, e) ==
    LET choice == parseSelection(m.Text, <<"UpdateAll", "UpdateSome">>, 1) IN
    IF Len(choice) = 0 THEN Send(w, m.Chat, "choose_action")
    ELSE IF choice[1] = "UpdateSome"
    THEN LET cs1 == setStage([w.cs EXCEPT !.AvailableCats = KeysInOrder(w.cs.Topics, e.perm)],
                             "stageSelectManyExisting")
         IN Send(Note([w EXCEPT !.cs = cs1], Did("replaceSome", m.Chat, "", <<>>, "")),
                 m.Chat, "prompt_choose_existing_multi")
    ELSE LET cs1 == setStage([w.cs EXCEPT !.Topics = EmptyMap, !.Step = 0], "stageCategory")
         IN Send(Note([w EXCEPT !.cs = cs1], Did("replaceAll", m.Chat, "", <<>>, "")),
                 m.Chat, "prompt_choose_category")

\* App.continueUpdateFlow, case stageSelectManyExisting
App_stageSelectManyExisting(w, m, e) ==
    LET cs == w.cs IN
    IF EqualFold(m.Text, Done)
    THEN IF Len(cs.SelectedCats) = 0 THEN Drop(Send(w, m.Chat, "no_changes"))
         ELSE LET cs1 == setStage([cs EXCEPT !.CategoryLimit = Len(cs.SelectedCats), !.Step = 0,
                                             !.OldCat = cs.SelectedCats[1]], "stageCategory")
              IN Send([w EXCEPT !.cs = cs1], m.Chat, "prompt_choose_new")
    ELSE IF EqualFold(m.Text, Back)
    THEN Send([w EXCEPT !.cs = [setStage(cs, "stageUpdateChoice") EXCEPT !.SelectedCats = <<>>]],
              m.Chat, "choose_action")
    ELSE LET cats == parseSelection(m.Text, cs.AvailableCats, Len(cs.AvailableCats)) IN
         IF Len(cats) = 0 THEN Send(w, m.Chat, "choose_category_number")
         ELSE Send([w EXCEPT !.cs.SelectedCats = Merge(cs.SelectedCats, cats)],
                   m.Chat, "prompt_choose_existing_multi")

\* App.continueUpdateFlow, case stageCategory
App_stageCategory(w, m, e) ==
    LET cs == w.cs
        opts == addCustomOption(categoryOptions, cs.AllowCustomCategory)
    IN IF EqualFold(m.Text, Done)
       THEN IF cs.Step = 0 THEN Drop(Send(w, m.Chat, "no_changes"))
            ELSE App_saveTopics(w, m, e)
       ELSE IF EqualFold(m.Text, Back)
       THEN IF cs.PrevStage = "stageSelectManyExisting"
            THEN Send([w EXCEPT !.cs = [setStage(cs, "stageUpdateChoice") EXCEPT !.SelectedCats = <<>>]],
                      m.Chat, "choose_action")
            ELSE Send([w EXCEPT !.cs = [setStage(cs, "stageUpdateChoice") EXCEPT !.OldCat = ""]],
                      m.Chat, "choose_action")
       ELSE LET cats == parseSelection(m.Text, opts, 1) IN
            IF Len(cats) = 0 THEN Send(w, m.Chat, "choose_category_number")
            ELSE IF cs.AllowCustomCategory /\ cats[1] = CustomOption
            THEN Send([w EXCEPT !.cs = setStage(cs, "stageCustomCategory")],
                      m.Chat, "enter_custom_category")
            ELSE Send([w EXCEPT !.cs = setStage([cs EXCEPT !.CurrentCat = cats[1],
                                                           !.SelectedInfos = <<>>], "stageInfoTypes")],
                      m.Chat, "prompt_choose_info")

\* App.continueUpdateFlow, case stageCustomCategory
App_stageCustomCategory(w, m, e) ==
    IF Len(m.Text) < 1 \/ Len(m.Text) > 3 THEN Send(w, m.Chat, "enter_words_1_3")
    ELSE Send([w EXCEPT !.cs = [setStage([w.cs EXCEPT !.CurrentCat = CustomName(m.Text)],
                                         "stageInfoTypes") EXCEPT !.SelectedInfos = <<>>]],
              m.Chat, "prompt_choose_info")

\* App.continueUpdateFlow, case stageInfoTypes
App_stageInfoTypes(w, m, e) ==
    LET cs == w.cs IN
    IF EqualFold(m.Text, Back)
    THEN Send([w EXCEPT !.cs = setStage(cs, "stageCategory")], m.Chat,
              IF cs.OldCat # "" THEN "prompt_choose_new" ELSE "prompt_choose_category")
    ELSE IF EqualFold(m.Text, Done)
    THEN IF Len(cs.SelectedInfos) = 0 /\ Len(Lookup(cs.Topics, cs.CurrentCat)) = 0
         THEN Send(w, m.Chat, "prompt_choose_info")
         ELSE App_commitCategory(w, m, e)
    ELSE LET infos == parseSelection(m.Text, infoOptions, cs.InfoLimit - Len(cs.SelectedInfos)) IN
         IF Len(infos) = 0 THEN Send(w, m.Chat, "prompt_choose_info")
         ELSE LET w1 == [w EXCEPT !.cs.SelectedInfos = AppendNew(cs.SelectedInfos, infos, cs.InfoLimit)]
              IN IF Len(w1.cs.SelectedInfos) < cs.InfoLimit
                 THEN Send(w1, m.Chat, "prompt_choose_info")
                 ELSE App_commitCategory(w1, m, e)

\* App.continueUpdateFlow: the working state it leaves and whether it returned true
App_continueUpdateFlow(w, m, e) ==
    IF ~w.cs.UpdateTopics \/ w.cs.DeleteTopics THEN [w |-> w, handled |-> FALSE]
    ELSE CASE w.cs.Stage = "stageChooseCategoryCount" ->
                [w |-> App_stageChooseCategoryCount(w, m, e), handled |-> TRUE]
           [] w.cs.Stage = "stageUpdateChoice" ->
                [w |-> App_stageUpdateChoice(w, m, e), handled |-> TRUE]
           [] w.cs.Stage = "stageSelectManyExisting" ->
                [w |-> App_stageSelectManyExisting(w, m, e), handled |-> TRUE]
           [] w.cs.Stage = "stageCategory" ->
                [w |-> App_stageCategory(w, m, e), handled |-> TRUE]
           [] w.cs.Stage = "stageCustomCategory" ->
                [w |-> App_stageCustomCategory(w, m, e), handled |-> TRUE]
           [] w.cs.Stage = "stageInfoTypes" ->
                [w |-> App_stageInfoTypes(w, m, e), handled |-> TRUE]
           [] OTHER -> [w |-> w, handled |-> FALSE]

\* App.continueDeleteFlow
App_continueDeleteFlow(w, m, e) ==
    LET cs == w.cs IN
    IF ~cs.DeleteTopics THEN [w |-> w, handled |-> FALSE]
    ELSE IF cs.Stage = "stageDeleteChoice"
    THEN IF EqualFold(m.Text, Done)
         THEN [w |-> Drop(Send(w, m.Chat, "no_changes")), handled |-> TRUE]
         ELSE LET choice == parseSelection(m.Text, <<"DeleteAll", "DeleteSome">>, 1) IN
              IF Len(choice) = 0
              THEN [w |-> Send(w, m.Chat, "choose_delete_action"), handled |-> TRUE]
              ELSE IF choice[1] = "DeleteSome"
              THEN [w |-> Send([w EXCEPT !.cs = setStage([cs EXCEPT !.AvailableCats =
                                                              KeysInOrder(cs.Topics, e.perm)],
                                                         "stageSelectDelete")],
                               m.Chat, "prompt_choose_delete_multi"),
                    handled |-> TRUE]
              ELSE [w |-> App_saveTopics([w EXCEPT !.cs.Topics = EmptyMap], m, e), handled |-> TRUE]
    ELSE IF cs.Stage = "stageSelectDelete"
    THEN IF EqualFold(m.Text, Done)
         THEN IF Len(cs.SelectedCats) = 0
              THEN [w |-> Drop(Send(w, m.Chat, "no_changes")), handled |-> TRUE]
              ELSE [w |-> App_saveTopics([w EXCEPT !.cs.Topics =
                                              [k \in DOMAIN cs.Topics \ Range(cs.SelectedCats) |->
                                                  cs.Topics[k]]], m, e),
                    handled |-> TRUE]
         ELSE LET cats == parseSelection(m.Text, cs.AvailableCats, Len(cs.AvailableCats)) IN
              IF Len(cats) = 0
              THEN [w |-> Send(w, m.Chat, "choose_category_number"), handled |-> TRUE]
              ELSE [w |-> Send([w EXCEPT !.cs.SelectedCats = Merge(cs.SelectedCats, cats)],
                               m.Chat, "prompt_choose_delete_multi"),
                    handled |-> TRUE]
    ELSE [w |-> w, handled |-> FALSE]

\* the day's count of a record, set to zero when the last use was on another day
CountToday(count, now, last) == IF OtherDay(now, last) THEN 0 ELSE count

\* CmdHandler.continueNewsFlow; App.continueNewsFlow has the same statements
continueNewsFlow(w, m, e) ==
    IF w.cs.Stage # "stageGetNewsCategory" THEN [w |-> w, handled |-> FALSE]
    ELSE LET cats == parseSelection(m.Text, w.cs.AvailableCats, 1) IN
    IF Len(cats) = 0 THEN [w |-> Send(w, m.Chat, "choose_category_number"), handled |-> TRUE]
    ELSE LET s0 == w.cs.Settings[1]
             tariff == TariffOrBase(s0.Tariff)
             s1 == [s0 EXCEPT !.GetNewsNowCount = CountToday(@, e.now, s0.LastGetNewsNow)]
         IN IF s1.GetNewsNowCount >= tariff.Limits.GetNewsNowPerDay
            THEN [w |-> Drop(Send([w EXCEPT !.cs.Settings = <<s1>>], m.Chat, "limit_today")),
                  handled |-> TRUE]
            ELSE LET s2 == [s1 EXCEPT !.GetNewsNowCount = @ + 1, !.LastGetNewsNow = e.now]
                     r == repoSave(w.store, e.kind, s2, e.fault = "save")
                     w1 == Note([w EXCEPT !.store = r.st, !.cs.Settings = <<s2>>],
                                Did("count", m.Chat, "", <<>>, ""))
                     g == UserService_GetNewsForCategoryMultiInfo(w1, s2, cats[1], e)
                 IN [w |-> Drop(IF g.err = "nil" THEN Send(g.w, m.Chat, "news") ELSE g.w),
                     handled |-> TRUE]

\* CmdHandler.continueLast24hFlow; App.continueLast24hFlow has the same statements
continueLast24hFlow(w, m, e) ==
    IF w.cs.Stage # "stageGetLast24hCategory" THEN [w |-> w, handled |-> FALSE]
    ELSE LET cats == parseSelection(m.Text, w.cs.AvailableCats, 1) IN
    IF Len(cats) = 0 THEN [w |-> Send(w, m.Chat, "choose_category_number"), handled |-> TRUE]
    ELSE LET s0 == w.cs.Settings[1]
             tariff == TariffOrBase(s0.Tariff)
             s1 == [s0 EXCEPT !.GetLast24hCount = CountToday(@, e.now, s0.LastGetLast24h)]
         IN IF s1.GetLast24hCount >= tariff.Limits.GetLast24hNewPerDay
            THEN [w |-> Drop(Send([w EXCEPT !.cs.Settings = <<s1>>], m.Chat, "limit_today")),
                  handled |-> TRUE]
            ELSE LET w0 == Send([w EXCEPT !.cs.Settings = <<s1>>], m.Chat, "wait_search")
                     g == UserService_GetLast24hNewsForCategory(w0, s1, cats[1], e)
                 IN IF g.err # "nil" THEN [w |-> Drop(g.w), handled |-> TRUE]
                    ELSE LET s2 == [s1 EXCEPT !.GetLast24hCount = @ + 1, !.LastGetLast24h = e.now]
                             r == repoSave(g.w.store, e.kind, s2, e.fault = "save")
                             w1 == Note([g.w EXCEPT !.store = r.st, !.cs.Settings = <<s2>>],
                                        Did("count", m.Chat, "", <<>>, ""))
                         IN [w |-> Drop(Send(w1, m.Chat, "news")), handled |-> TRUE]

\* strings.TrimSpace(m.Text) for the texts the model feeds
SpaceTrimmed(text) ==
    IF Len(text) = 0 THEN "" ELSE IF Len(text) = 1 THEN text[1] ELSE "several words"

\* strings.TrimPrefix(word, "@") on the words the model feeds
TrimPrefixAt(word) ==
    CASE word = "@alice" -> "alice"
      [] word = "@bob" -> "bob"
      [] word = "@" -> ""
      [] OTHER -> word

\* strings.TrimPrefix(strings.TrimSpace(m.Text), "@")
TrimmedText(text) == TrimPrefixAt(SpaceTrimmed(text))

\* CmdHandler.continueSetTariffFlow; App.continueSetTariffFlow has the same statements
continueSetTariffFlow(w, m, e) ==
    IF w.cs.Stage = "stageSetTariffUser"
    THEN IF TrimmedText(m.Text) = ""
         THEN [w |-> Send(w, m.Chat, "enter_username"), handled |-> TRUE]
         ELSE [w |-> Send([w EXCEPT !.cs = setStage([w.cs EXCEPT !.TargetUser = TrimmedText(m.Text)],
                                                    "stageSetTariffChoice")],
                          m.Chat, "choose_tariff"),
               handled |-> TRUE]
    ELSE IF w.cs.Stage = "stageSetTariffChoice"
    THEN LET choice == SpaceTrimmed(m.Text) IN
         IF choice \notin {"base", "plus", "premium", "ultimate"}
         THEN [w |-> Send(w, m.Chat, "choose_tariff"), handled |-> TRUE]
         ELSE LET r == setUserTariff([w EXCEPT !.cs.NewTariff = choice], w.cs.TargetUser, choice, e)
              IN [w |-> Drop(Send(r.w, m.Chat, IF r.err # "nil" THEN "error" ELSE "tariff_updated")),
                  handled |-> TRUE]
    ELSE [w |-> w, handled |-> FALSE]

\* App.continueStartFlow
App_continueStartFlow(w, m, e) ==
    IF w.cs.UpdateTopics \/ w.cs.DeleteTopics THEN [w |-> w, handled |-> FALSE]
    ELSE IF w.cs.Stage = "stageWelcome"
    THEN IF ~TextIs(m.Text, Continue)
         THEN [w |-> Send(w, m.Chat, "press_continue"), handled |-> TRUE]
         ELSE LET t == Tariffs["base"]
                  cs1 == [w.cs EXCEPT !.Step = 0, !.CategoryLimit = t.Limits.CategoryLimit,
                                      !.InfoLimit = t.Limits.InfoTypeLimit,
                                      !.AllowCustomCategory = t.AllowCustomCategory]
              IN [w |-> Send([w EXCEPT !.cs = setStage(cs1, "stageChooseCategoryCount")],
                             m.Chat, "prompt_choose_count"),
                  handled |-> TRUE]
    ELSE IF w.cs.Stage \in {"stageChooseCategoryCount", "stageCategory", "stageCustomCategory",
                            "stageInfoTypes"}
    THEN App_continueUpdateFlow(w, m, e)
    ELSE [w |-> w, handled |-> FALSE]

\* "if a.continueXFlow(ctx, m, c) { return }", six times: the first flow that returns true
FirstHandled(r1, r2, r3, r4, r5, r6) ==
    IF r1.handled THEN r1.w
    ELSE IF r2.handled THEN r2.w
    ELSE IF r3.handled THEN r3.w
    ELSE IF r4.handled THEN r4.w
    ELSE IF r5.handled THEN r5.w
    ELSE r6.w

\* the chain of flows that App.continueConversation tries in turn
App_flows(w, m, e) ==
    FirstHandled(App_continueStartFlow(w, m, e), App_continueUpdateFlow(w, m, e),
                 App_continueDeleteFlow(w, m, e), continueNewsFlow(w, m, e),
                 continueLast24hFlow(w, m, e), continueSetTariffFlow(w, m, e))

\* a continueConversation that keeps the session when the flow is cancelled
App_keepOnCancel(w, m, e) ==
    IF EqualFold(m.Text, Cancel) THEN Send(w, m.Chat, "cancelled") ELSE App_flows(w, m, e)

\* App.continueConversation
App_continueConversation(w, m, e) ==
    IF EqualFold(m.Text, Cancel) THEN Drop(Send(w, m.Chat, "cancelled"))
    ELSE IF EqualFold(m.Text, Back) /\ w.cs.PrevStage = ""
    THEN App_flows([w EXCEPT !.cs = back(w.cs)], [m EXCEPT !.Text = <<>>], e)
    ELSE App_flows(w, m, e)

\* App.handleStartCommand and CmdHandler.handleStartCommand
handleStartCommand(w, m, e, cmd, welcome) ==
    LET g == repoGet(w.store, e.kind, m.Chat, e.fault = "get") IN
    IF g.err # "nil"
    THEN Send(Open(w, [ZeroConv EXCEPT !.Cmd = cmd, !.Stage = welcome]), m.Chat, "start")
    ELSE LET r == UserService_Start(w, m.Chat, Username[m.Chat], e)
         IN IF r.err # "nil" THEN r.w ELSE Send(r.w, m.Chat, "start")

\* App.handleStopCommand and CmdHandler.handleStopCommand
handleStopCommand(w, m, e) ==
    LET r == UserService_Stop(w, m.Chat, e)
    IN IF r.err # "nil" THEN r.w ELSE Send(r.w, m.Chat, "stopped")

\* App.handleMyTopicsCommand and CmdHandler.handleMyTopicsCommand
handleMyTopicsCommand(w, m, e) ==
    LET g == repoGet(w.store, e.kind, m.Chat, e.fault = "get")
    IN Send(w, m.Chat, IF g.err # "nil" THEN "start_first" ELSE "your_topics")

\* a handleSetTariffCommand that opens the admin flow for any sender
handleSetTariffCommand_ungated(w, m, e, cmd) ==
    Send(Open(w, [ZeroConv EXCEPT !.Cmd = cmd, !.Stage = "stageSetTariffUser"]),
         m.Chat, "enter_username")

\* App.handleSetTariffCommand and CmdHandler.handleSetTariffCommand
handleSetTariffCommand(w, m, e, cmd) ==
    IF Username[m.Chat] # adminUserName THEN w
    ELSE Send(Open(w, [ZeroConv EXCEPT !.Cmd = cmd, !.Stage = "stageSetTariffUser"]),
              m.Chat, "enter_username")

\* the copy of the stored topics a session starts with
CopyTopics(cs, settings) == [cs EXCEPT !.Topics = settings.Topics]

\* App.handleUpdateTopicsCommand and CmdHandler.handleUpdateTopicsCommand
handleUpdateTopicsCommand(w, m, e, conv0, choiceStage, categoryStage) ==
    LET g == repoGet(w.store, e.kind, m.Chat, e.fault = "get")
        tariff == IF g.err = "nil" THEN TariffOrBase(g.val.Tariff) ELSE Tariffs["base"]
        conv == [conv0 EXCEPT !.CategoryLimit = tariff.Limits.CategoryLimit,
                              !.InfoLimit = tariff.Limits.InfoTypeLimit,
                              !.AllowCustomCategory = tariff.AllowCustomCategory]
    IN IF g.err = "nil" /\ DOMAIN g.val.Topics # {}
       THEN Send(Open(w, CopyTopics([conv EXCEPT !.Stage = choiceStage], g.val)),
                 m.Chat, "choose_action")
       ELSE Send(Open(w, [conv EXCEPT !.Stage = categoryStage]), m.Chat, "prompt_choose_category")

\* App.handleAddTopicCommand and CmdHandler.handleAddTopicCommand
handleAddTopicCommand(w, m, e, conv0, categoryStage) ==
    LET g == repoGet(w.store, e.kind, m.Chat, e.fault = "get")
        tariff == TariffOrBase(g.val.Tariff)
        n == Cardinality(DOMAIN g.val.Topics)
    IN IF g.err # "nil" THEN Send(w, m.Chat, "start_first")
       ELSE IF n >= tariff.Limits.CategoryLimit THEN Send(w, m.Chat, "limit_categories")
       ELSE Send(Open(w, CopyTopics([conv0 EXCEPT !.CategoryLimit = tariff.Limits.CategoryLimit - n,
                                                  !.InfoLimit = tariff.Limits.InfoTypeLimit,
                                                  !.AllowCustomCategory = tariff.AllowCustomCategory,
                                                  !.Stage = categoryStage], g.val)),
                 m.Chat, "prompt_choose_category")

\* App.handleDeleteTopicsCommand and CmdHandler.handleDeleteTopicsCommand
handleDeleteTopicsCommand(w, m, e, conv0, choiceStage) ==
    LET g == repoGet(w.store, e.kind, m.Chat, e.fault = "get")
    IN IF g.err # "nil" THEN Send(w, m.Chat, "start_first")
       ELSE IF DOMAIN g.val.Topics = {} THEN Send(w, m.Chat, "no_topics")
       ELSE Send(Open(w, CopyTopics([conv0 EXCEPT !.Stage = choiceStage], g.val)),
                 m.Chat, "choose_delete_action")

\* App.handleGetNewsNowCommand and CmdHandler.handleGetNewsNowCommand
handleGetNewsNowCommand(w, m, e, cmd) ==
    LET g == repoGet(w.store, e.kind, m.Chat, e.fault = "get") IN
    IF g.err # "nil" THEN Send(w, m.Chat, "start_first")
    ELSE LET tariff == TariffOrBase(g.val.Tariff)
             settings == [g.val EXCEPT !.GetNewsNowCount = CountToday(@, e.now, g.val.LastGetNewsNow)]
         IN IF settings.GetNewsNowCount >= tariff.Limits.GetNewsNowPerDay
            THEN Send(w, m.Chat, "limit_today")
            ELSE IF DOMAIN settings.Topics = {} THEN Send(w, m.Chat, "no_topics")
            ELSE Send(Open(w, [ZeroConv EXCEPT !.Cmd = cmd, !.Stage = "stageGetNewsCategory",
                                               !.Settings = <<settings>>,
                                               !.AvailableCats = KeysInOrder(settings.Topics, e.perm)]),
                      m.Chat, "prompt_choose_news_cat")

\* App.handleGetLast24hNewsCommand and CmdHandler.handleGetLast24hNewsCommand
handleGetLast24hNewsCommand(w, m, e, cmd) ==
    LET g == repoGet(w.store, e.kind, m.Chat, e.fault = "get") IN
    IF g.err # "nil" THEN Send(w, m.Chat, "start_first")
    ELSE IF g.val.Tariff \notin {"plus", "premium", "ultimate"} THEN Send(w, m.Chat, "plus_only")
    ELSE LET tariff == TariffOrBase(g.val.Tariff)
             settings == [g.val EXCEPT !.GetLast24hCount = CountToday(@, e.now, g.val.LastGetLast24h)]
         IN IF settings.GetLast24hCount >= tariff.Limits.GetLast24hNewPerDay
            THEN Send(w, m.Chat, "limit_today")
            ELSE IF DOMAIN settings.Topics = {} THEN Send(w, m.Chat, "no_topics")
            ELSE Send(Open(w, [ZeroConv EXCEPT !.Cmd = cmd, !.Stage = "stageGetLast24hCategory",
                                               !.Settings = <<settings>>,
                                               !.AvailableCats = KeysInOrder(settings.Topics, e.perm)]),
                      m.Chat, "prompt_choose_last24_cat")

\* the switch of App.handleMessage
App_command(w, m, e) ==
    CASE TextIs(m.Text, "/start") -> handleStartCommand(w, m, e, "", "stageWelcome")
      [] TextIs(m.Text, "/stop") -> handleStopCommand(w, m, e)
      [] TextIs(m.Text, "/get_news_now") -> handleGetNewsNowCommand(w, m, e, "")
      [] TextIs(m.Text, "/get_last_24h_news") -> handleGetLast24hNewsCommand(w, m, e, "")
      [] TextIs(m.Text, "/topics") -> Send(w, m.Chat, "topics_menu")
      [] TextIs(m.Text, "/my_topics") -> handleMyTopicsCommand(w, m, e)
      [] TextIs(m.Text, "/update_topics") ->
            handleUpdateTopicsCommand(w, m, e, [ZeroConv EXCEPT !.UpdateTopics = TRUE],
                                      "stageUpdateChoice", "stageCategory")
      [] TextIs(m.Text, "/add_topic") \/ TextIs(m.Text, "/add_topics") ->
            handleAddTopicCommand(w, m, e, [ZeroConv EXCEPT !.UpdateTopics = TRUE], "stageCategory")
      [] TextIs(m.Text, "/delete_topics") ->
            handleDeleteTopicsCommand(w, m, e, [ZeroConv EXCEPT !.UpdateTopics = TRUE,
                                                                !.DeleteTopics = TRUE],
                                      "stageDeleteChoice")
      [] TextIs(m.Text, "/info") -> Send(w, m.Chat, "info")
      [] TextIs(m.Text, "/tariffs") -> Send(w, m.Chat, "tariffs")
      [] TextIs(m.Text, "/sett") -> handleSetTariffCommand(w, m, e, "")
      [] OTHER -> Send(w, m.Chat, "unknown_text")

\* a handleMessage that runs /stop as a command even while a session is open
App_handleMessage_stopFirst(w, m, e) ==
    IF w.live /\ w.cs.Stage # "" /\ ~TextIs(m.Text, "/start") /\ ~TextIs(m.Text, "/stop")
    THEN App_continueConversation(w, m, e)
    ELSE App_command(w, m, e)

\* App.handleMessage
App_handleMessage(w, m, e) ==
    IF w.live /\ w.cs.Stage # "" /\ ~TextIs(m.Text, "/start")
    THEN App_continueConversation(w, m, e)
    ELSE App_command(w, m, e)

----------------------------------------------------------------------------
(* CmdHandler: the engine of internal/app/cmdHandlers.  Where a branch of the source
   does not return, the operator goes on with the statements that follow it. *)

\* an index out of range stops the process
Panic(w) == [w EXCEPT !.halted = TRUE]

\* a saveTopics that ends the session without storing the topics
CmdHandler_forgetTopics(w, m, e) == Drop(w)

\* CmdHandler.saveTopics
CmdHandler_saveTopics(w, m, e) ==
    saveTopicsBody(w, m, e, w.cs.Cmd \in {"/update_topics", "/add_topics"})

\* the statements from "if cs.Topics == nil" to the end of the three InfoTypes handlers
CmdHandler_commit(w, m, e, categoryStage) ==
    LET cs == w.cs
        topics0 == IF cs.OldCat # "" THEN Del(cs.Topics, cs.OldCat) ELSE cs.Topics
        existing == Merge(Lookup(topics0, cs.CurrentCat), cs.SelectedInfos)
        cs1 == [cs EXCEPT !.Topics = Put(topics0, cs.CurrentCat, existing), !.OldCat = "",
                          !.SelectedInfos = <<>>, !.Step = cs.Step + 1]
        w1 == Note([w EXCEPT !.cs = cs1],
                   Did("commit", m.Chat, cs.CurrentCat, cs.SelectedInfos, cs.OldCat))
        w2 == IF cs1.Step >= cs1.CategoryLimit THEN CmdHandler_saveTopics(w1, m, e) ELSE w1
        w3 == IF Len(cs1.SelectedCats) > 0 /\ cs1.Step < Len(cs1.SelectedCats)
              THEN Send([w2 EXCEPT !.cs.OldCat = cs1.SelectedCats[cs1.Step + 1],
                                   !.cs.Stage = categoryStage], m.Chat, "prompt_choose_new")
              ELSE w2
    IN IF w2.halted THEN w2
       ELSE Send([w3 EXCEPT !.cs = setStage(w3.cs, categoryStage)], m.Chat, "prompt_choose_category")

\* the "Done" test and the selection of info types in handleStageStartInfoTypes and
\* handleStageUpdateTopicsInfoTypes; no branch of it returns
CmdHandler_selectInfos(w, m) ==
    LET cs == w.cs IN
    IF EqualFold(m.Text, Done)
    THEN IF Len(cs.SelectedInfos) = 0 /\ Len(Lookup(cs.Topics, cs.CurrentCat)) = 0
         THEN Send(w, m.Chat, "prompt_choose_info")
         ELSE w
    ELSE LET infos == parseSelection(m.Text, infoOptions, cs.InfoLimit - Len(cs.SelectedInfos))
             w1 == IF Len(infos) = 0 THEN Send(w, m.Chat, "prompt_choose_info") ELSE w
             w2 == [w1 EXCEPT !.cs.SelectedInfos = AppendNew(cs.SelectedInfos, infos, cs.InfoLimit)]
         IN IF Len(w2.cs.SelectedInfos) < cs.InfoLimit
            THEN Send(w2, m.Chat, "prompt_choose_info")
            ELSE w2

\* CmdHandler.handleStageStartWelcome
CmdHandler_handleStageStartWelcome(w, m, e) ==
    LET w1 == IF ~TextIs(m.Text, Continue) THEN Send(w, m.Chat, "press_continue") ELSE w
        t == Tariffs["base"]
        cs1 == [w1.cs EXCEPT !.Step = 0, !.CategoryLimit = t.Limits.CategoryLimit,
                             !.InfoLimit = t.Limits.InfoTypeLimit,
                             !.AllowCustomCategory = t.AllowCustomCategory]
    IN Send([w1 EXCEPT !.cs = setStage(cs1, "StageStartChooseCategoryCount")],
            m.Chat, "prompt_choose_count")

\* CmdHandler.handleStageStartChooseCategoryCount
CmdHandler_handleStageStartChooseCategoryCount(w, m, e) ==
    LET count == AtoiText(m.Text)
        w1 == IF ~count.ok \/ count.n < 1 \/ count.n > w.cs.CategoryLimit
              THEN Send(w, m.Chat, "prompt_choose_count")
              ELSE w
    IN Send([w1 EXCEPT !.cs = setStage([w1.cs EXCEPT !.CategoryLimit = count.n], "StageStartCategory")],
            m.Chat, "prompt_choose_category")

\* CmdHandler.handleStageStartCategory
CmdHandler_handleStageStartCategory(w, m, e) ==
    LET opts == addCustomOption(categoryOptions, w.cs.AllowCustomCategory)
        cats == parseSelection(m.Text, opts, 1)
    IN IF Len(cats) = 0 THEN Panic(Send(w, m.Chat, "choose_category_number"))
       ELSE LET w1 == IF w.cs.AllowCustomCategory /\ cats[1] = CustomOption
                      THEN Send([w EXCEPT !.cs = setStage(w.cs, "StageCustomCategory")],
                                m.Chat, "enter_custom_category")
                      ELSE w
            IN Send([w1 EXCEPT !.cs = setStage([w1.cs EXCEPT !.CurrentCat = cats[1],
                                                             !.SelectedInfos = <<>>],
                                               "StageStartInfoTypes")],
                    m.Chat, "prompt_choose_info")

\* CmdHandler.handleStageStartCustomCategory, handleStageUpdateTopicsCustomCategory and
\* handleStageAddTopicsCustomCategory
CmdHandler_handleStageCustomCategory(w, m, e, infoStage) ==
    LET w1 == IF Len(m.Text) < 1 \/ Len(m.Text) > 3 THEN Send(w, m.Chat, "enter_words_1_3") ELSE w
    IN Send([w1 EXCEPT !.cs = [setStage([w1.cs EXCEPT !.CurrentCat = CustomName(m.Text)], infoStage)
                                   EXCEPT !.SelectedInfos = <<>>]],
            m.Chat, "prompt_choose_info")

\* CmdHandler.handleStageStartInfoTypes
CmdHandler_handleStageStartInfoTypes(w, m, e) ==
    LET w1 == IF EqualFold(m.Text, Back)
              THEN Send([w EXCEPT !.cs = [back(w.cs) EXCEPT !.SelectedInfos = <<>>]],
                        m.Chat, "prompt_choose_category")
              ELSE w
    IN CmdHandler_commit(CmdHandler_selectInfos(w1, m), m, e, "StageStartCategory")

\* CmdHandler.continueStartFlow
CmdHandler_continueStartFlow(w, m, e) ==
    CASE w.cs.Stage = "StageStartWelcome" -> CmdHandler_handleStageStartWelcome(w, m, e)
      [] w.cs.Stage = "StageStartChooseCategoryCount" ->
            CmdHandler_handleStageStartChooseCategoryCount(w, m, e)
      [] w.cs.Stage = "StageStartCategory" -> CmdHandler_handleStageStartCategory(w, m, e)
      [] w.cs.Stage = "StageStartCustomCategory" ->
            CmdHandler_handleStageCustomCategory(w, m, e, "StageStartInfoTypes")
      [] w.cs.Stage = "StageStartInfoTypes" -> CmdHandler_handleStageStartInfoTypes(w, m, e)
      [] OTHER -> w

\* CmdHandler.handleStageUpdateTopicsUpdateChoice
CmdHandler_handleStageUpdateTopicsUpdateChoice(w, m, e) ==
    LET choice == parseSelection(m.Text, <<"UpdateAll", "UpdateSome">>, 1) IN
    IF Len(choice) = 0 THEN Panic(Send(w, m.Chat, "choose_action"))
    ELSE LET w1 == IF choice[1] = "UpdateSome"
                   THEN Send(Note([w EXCEPT !.cs = setStage([w.cs EXCEPT !.AvailableCats =
                                                                 KeysInOrder(w.cs.Topics, e.perm)],
                                                            "StageUpdateTopicsSelectManyExisting")],
                                  Did("replaceSome", m.Chat, "", <<>>, "")),
                             m.Chat, "prompt_choose_existing_multi")
                   ELSE w
             cs1 == setStage([w1.cs EXCEPT !.Topics = EmptyMap, !.Step = 0], "StageUpdateTopicsCategory")
         IN Send(Note([w1 EXCEPT !.cs = cs1], Did("replaceAll", m.Chat, "", <<>>, "")),
                 m.Chat, "prompt_choose_category")

\* the "Done" branch of handleStageUpdateTopicsSelectManyExisting
CmdHandler_selectManyDone(w, m) ==
    IF ~EqualFold(m.Text, Done) THEN w
    ELSE LET w1 == IF Len(w.cs.SelectedCats) = 0 THEN Drop(Send(w, m.Chat, "no_changes")) ELSE w
         IN IF Len(w1.cs.SelectedCats) = 0 THEN Panic(w1)
            ELSE Send([w1 EXCEPT !.cs = setStage([w1.cs EXCEPT !.CategoryLimit = Len(w1.cs.SelectedCats),
                                                               !.Step = 0, !.OldCat = w1.cs.SelectedCats[1]],
                                                 "StageUpdateTopicsCategory")],
                      m.Chat, "prompt_choose_new")

\* CmdHandler.handleStageUpdateTopicsSelectManyExisting
CmdHandler_handleStageUpdateTopicsSelectManyExisting(w, m, e) ==
    LET w1 == CmdHandler_selectManyDone(w, m)
        w2 == IF EqualFold(m.Text, Back)
              THEN Send([w1 EXCEPT !.cs = [setStage(w1.cs, "StageUpdateTopicsChoice")
                                              EXCEPT !.SelectedCats = <<>>]], m.Chat, "choose_action")
              ELSE w1
        cats == parseSelection(m.Text, w2.cs.AvailableCats, Len(w2.cs.AvailableCats))
        w3 == IF Len(cats) = 0 THEN Send(w2, m.Chat, "choose_category_number") ELSE w2
        w4 == [w3 EXCEPT !.cs.SelectedCats = Merge(w3.cs.SelectedCats, cats)]
    IN IF w1.halted THEN w1
       ELSE IF Len(w4.cs.AvailableCats) # 1 THEN Send(w4, m.Chat, "prompt_choose_existing_multi")
       ELSE IF Len(w4.cs.SelectedCats) = 0 THEN Panic(w4)
       ELSE Send(Send([w4 EXCEPT !.cs = setStage([w4.cs EXCEPT !.CategoryLimit = Len(w4.cs.SelectedCats),
                                                               !.Step = 0,
                                                               !.OldCat = w4.cs.SelectedCats[1]],
                                                 "StageUpdateTopicsCategory")],
                      m.Chat, "prompt_choose_new"),
                 m.Chat, "prompt_choose_new")

\* the "Back" branch of handleStageUpdateTopicsCategory; it ends without a return
CmdHandler_categoryBack(w, m) ==
    LET w1 == IF w.cs.PrevStage = "StageUpdateTopicsSelectManyExisting"
              THEN Send([w EXCEPT !.cs = [setStage(w.cs, "StageUpdateTopicsChoice")
                                             EXCEPT !.SelectedCats = <<>>, !.OldCat = ""]],
                        m.Chat, "choose_action")
              ELSE w
    IN Send([w1 EXCEPT !.cs = [setStage(w1.cs, "StageUpdateTopicsChoice") EXCEPT !.OldCat = ""]],
            m.Chat, "choose_action")

\* CmdHandler.handleStageUpdateTopicsCategory
CmdHandler_handleStageUpdateTopicsCategory(w, m, e) ==
    LET opts == addCustomOption(categoryOptions, w.cs.AllowCustomCategory)
        isBack == EqualFold(m.Text, Back)
        w1 == IF isBack THEN CmdHandler_categoryBack(w, m) ELSE w
        text == IF isBack /\ w.cs.PrevStage = "StageUpdateTopicsSelectManyExisting" THEN <<>> ELSE m.Text
        cats == parseSelection(text, opts, 1)
    IN IF Len(cats) = 0 THEN Send(w1, m.Chat, "choose_category_number")
       ELSE LET w2 == IF w1.cs.AllowCustomCategory /\ cats[1] = CustomOption
                      THEN Send([w1 EXCEPT !.cs = setStage(w1.cs, "StageUpdateTopicsCustomCategory")],
                                m.Chat, "enter_custom_category")
                      ELSE w1
            IN Send([w2 EXCEPT !.cs = setStage([w2.cs EXCEPT !.CurrentCat = cats[1]],
                                               "StageUpdateTopicsInfoTypes")],
                    m.Chat, "prompt_choose_info")

\* CmdHandler.handleStageUpdateTopicsInfoTypes
CmdHandler_handleStageUpdateTopicsInfoTypes(w, m, e) ==
    LET w1 == IF EqualFold(m.Text, Back)
              THEN Send([w EXCEPT !.cs = setStage(w.cs, "StageUpdateTopicsCategory")], m.Chat,
                        IF w.cs.OldCat # "" THEN "prompt_choose_new" ELSE "prompt_choose_category")
              ELSE w
    IN CmdHandler_commit(CmdHandler_selectInfos(w1, m), m, e, "StageUpdateTopicsCategory")

\* CmdHandler.continueUpdateFlow
CmdHandler_continueUpdateFlow(w, m, e) ==
    CASE w.cs.Stage = "StageUpdateTopicsChoice" -> CmdHandler_handleStageUpdateTopicsUpdateChoice(w, m, e)
      [] w.cs.Stage = "StageUpdateTopicsSelectManyExisting" ->
            CmdHandler_handleStageUpdateTopicsSelectManyExisting(w, m, e)
      [] w.cs.Stage = "StageUpdateTopicsCategory" -> CmdHandler_handleStageUpdateTopicsCategory(w, m, e)
      [] w.cs.Stage = "StageUpdateTopicsCustomCategory" ->
            CmdHandler_handleStageCustomCategory(w, m, e, "StageUpdateTopicsInfoTypes")
      [] w.cs.Stage = "StageUpdateTopicsInfoTypes" -> CmdHandler_handleStageUpdateTopicsInfoTypes(w, m, e)
      [] OTHER -> w

\* CmdHandler.handleStageAddTopicsCategory
CmdHandler_handleStageAddTopicsCategory(w, m, e) ==
    IF EqualFold(m.Text, Done) /\ DOMAIN w.cs.Topics = {}
    THEN Drop(CmdHandler_saveTopics(w, m, e))
    ELSE LET opts == addCustomOption(categoryOptions, w.cs.AllowCustomCategory)
             cats == parseSelection(m.Text, opts, 1)
         IN IF Len(cats) = 0 THEN Send(w, m.Chat, "choose_category_number")
            ELSE LET w1 == IF w.cs.AllowCustomCategory /\ cats[1] = CustomOption
                           THEN Send([w EXCEPT !.cs = setStage(w.cs, "StageAddTopicsCustomCategory")],
                                     m.Chat, "enter_custom_category")
                           ELSE w
                 IN Send([w1 EXCEPT !.cs = setStage([w1.cs EXCEPT !.CurrentCat = cats[1]],
                                                    "StageAddTopicsInfoTypes")],
                         m.Chat, "prompt_choose_info")

\* the statements of handleStageAddTopicsInfoTypes before "if cs.Topics == nil": the
\* working state they leave and whether they returned
CmdHandler_addInfos(w, m, e) ==
    IF EqualFold(m.Text, Done)
    THEN LET cs1 == [w.cs EXCEPT !.Step = @ + 1, !.SelectedInfos = <<>>,
                                 !.Topics = Put(@, w.cs.CurrentCat, <<>>)]
             w1 == [w EXCEPT !.cs = cs1]
         IN IF cs1.Step >= cs1.CategoryLimit
            THEN [w |-> CmdHandler_saveTopics(w1, m, e), returned |-> TRUE]
            ELSE [w |-> w1, returned |-> FALSE]
    ELSE LET infos == parseSelection(m.Text, infoOptions, w.cs.InfoLimit - Len(w.cs.SelectedInfos))
             w1 == IF Len(infos) = 0 THEN Send(w, m.Chat, "prompt_choose_info") ELSE w
             w2 == [w1 EXCEPT !.cs.SelectedInfos = AppendNew(w.cs.SelectedInfos, infos, w.cs.InfoLimit)]
         IN IF Len(w2.cs.SelectedInfos) < w.cs.InfoLimit
            THEN [w |-> Send(w2, m.Chat, "prompt_choose_info"), returned |-> TRUE]
            ELSE [w |-> w2, returned |-> FALSE]

\* CmdHandler.handleStageAddTopicsInfoTypes
CmdHandler_handleStageAddTopicsInfoTypes(w, m, e) ==
    LET w1 == IF EqualFold(m.Text, Back)
              THEN Send([w EXCEPT !.cs = back(w.cs)], m.Chat, "prompt_choose_new")
              ELSE w
        r == CmdHandler_addInfos(w1, m, e)
    IN IF r.returned THEN r.w ELSE CmdHandler_commit(r.w, m, e, "StageAddTopicsCategory")

\* CmdHandler.handleStageAddTopicsAddMore
CmdHandler_handleStageAddTopicsAddMore(w, m, e) ==
    LET choice == parseSelection(m.Text, <<"Yes", "No">>, 1) IN
    IF Len(choice) = 0 THEN Panic(Send(w, m.Chat, "choose_action"))
    ELSE IF choice[1] = "No" THEN CmdHandler_saveTopics(w, m, e)
    ELSE Send([w EXCEPT !.cs = setStage([w.cs EXCEPT !.AvailableCats = KeysInOrder(w.cs.Topics, e.perm)],
                                        "StageUpdateTopicsSelectManyExisting")],
              m.Chat, "prompt_choose_existing_multi")

\* CmdHandler.continueAddFlow
CmdHandler_continueAddFlow(w, m, e) ==
    CASE w.cs.Stage = "StageAddTopicsCustomCategory" ->
            CmdHandler_handleStageCustomCategory(w, m, e, "StageAddTopicsInfoTypes")
      [] w.cs.Stage = "StageAddTopicsCategory" -> CmdHandler_handleStageAddTopicsCategory(w, m, e)
      [] w.cs.Stage = "StageAddTopicsInfoTypes" -> CmdHandler_handleStageAddTopicsInfoTypes(w, m, e)
      [] w.cs.Stage = "StageAddTopicsAddMore" -> CmdHandler_handleStageAddTopicsAddMore(w, m, e)
      [] OTHER -> w

\* CmdHandler.continueDeleteFlow, case StageDeleteTopicsChoice
CmdHandler_deleteChoice(w, m, e) ==
    LET w1 == IF EqualFold(m.Text, Done) THEN Drop(Send(w, m.Chat, "no_changes")) ELSE w
        choice == parseSelection(m.Text, <<"DeleteAll", "DeleteSome">>, 1)
    IN IF Len(choice) = 0 THEN Panic(Send(w1, m.Chat, "choose_delete_action"))
       ELSE LET w2 == IF choice[1] = "DeleteSome"
                      THEN Send([w1 EXCEPT !.cs = setStage([w1.cs EXCEPT !.AvailableCats =
                                                                KeysInOrder(w1.cs.Topics, e.perm)],
                                                           "StageDeleteTopicsSelect")],
                                m.Chat, "prompt_choose_delete_multi")
                      ELSE w1
            IN CmdHandler_saveTopics([w2 EXCEPT !.cs.Topics = EmptyMap], m, e)

\* CmdHandler.continueDeleteFlow, case StageDeleteTopicsSelect
CmdHandler_deleteSelect(w, m, e) ==
    LET w1 == IF EqualFold(m.Text, Done) /\ Len(w.cs.SelectedCats) = 0
              THEN Drop(Send(w, m.Chat, "no_changes"))
              ELSE w
        w2 == IF EqualFold(m.Text, Done)
              THEN CmdHandler_saveTopics([w1 EXCEPT !.cs.Topics =
                                              [k \in DOMAIN w1.cs.Topics \ Range(w1.cs.SelectedCats) |->
                                                  w1.cs.Topics[k]]], m, e)
              ELSE w1
        cats == parseSelection(m.Text, w2.cs.AvailableCats, Len(w2.cs.AvailableCats))
        w3 == IF Len(cats) = 0 THEN Send(w2, m.Chat, "choose_category_number") ELSE w2
    IN IF w2.halted THEN w2
       ELSE Send([w3 EXCEPT !.cs.SelectedCats = Merge(w3.cs.SelectedCats, cats)],
                 m.Chat, "prompt_choose_delete_multi")

\* CmdHandler.continueDeleteFlow
CmdHandler_continueDeleteFlow(w, m, e) ==
    CASE w.cs.Stage = "StageDeleteTopicsChoice" -> CmdHandler_deleteChoice(w, m, e)
      [] w.cs.Stage = "StageDeleteTopicsSelect" -> CmdHandler_deleteSelect(w, m, e)
      [] OTHER -> w

\* CmdHandler.continueConversation
CmdHandler_continueConversation(w, m, e) ==
    IF EqualFold(m.Text, Cancel) THEN Drop(Send(w, m.Chat, "cancelled"))
    ELSE CASE w.cs.Cmd = "/start" -> CmdHandler_continueStartFlow(w, m, e)
           [] w.cs.Cmd = "/update_topics" -> CmdHandler_continueUpdateFlow(w, m, e)
           [] w.cs.Cmd = "/add_topics" -> CmdHandler_continueAddFlow(w, m, e)
           [] w.cs.Cmd = "/delete_topics" -> CmdHandler_continueDeleteFlow(w, m, e)
           [] w.cs.Cmd = "/get_news_now" -> continueNewsFlow(w, m, e).w
           [] w.cs.Cmd = "/get_last_24h_news" -> continueLast24hFlow(w, m, e).w
           [] w.cs.Cmd = "/sett" -> continueSetTariffFlow(w, m, e).w
           [] OTHER -> w

\* the switch of CmdHandler.HandleMessages
CmdHandler_command(w, m, e) ==
    CASE TextIs(m.Text, "/start") -> handleStartCommand(w, m, e, "/start", "StageStartWelcome")
      [] TextIs(m.Text, "/stop") -> handleStopCommand(w, m, e)
      [] TextIs(m.Text, "/info") -> Send(w, m.Chat, "info")
      [] TextIs(m.Text, "/tariffs") -> Send(w, m.Chat, "tariffs")
      [] TextIs(m.Text, "/topics") -> Send(w, m.Chat, "topics_menu")
      [] TextIs(m.Text, "/my_topics") -> handleMyTopicsCommand(w, m, e)
      [] TextIs(m.Text, "/update_topics") ->
            handleUpdateTopicsCommand(w, m, e, [ZeroConv EXCEPT !.Cmd = "/update_topics"],
                                      "StageUpdateTopicsChoice", "StageUpdateTopicsCategory")
      [] TextIs(m.Text, "/add_topics") ->
            handleAddTopicCommand(w, m, e, [ZeroConv EXCEPT !.Cmd = "/add_topics"],
                                  "StageAddTopicsCategory")
      [] TextIs(m.Text, "/delete_topics") ->
            handleDeleteTopicsCommand(w, m, e, [ZeroConv EXCEPT !.Cmd = "/delete_topics"],
                                      "StageDeleteTopicsChoice")
      [] TextIs(m.Text, "/get_news_now") -> handleGetNewsNowCommand(w, m, e, "/get_news_now")
      [] TextIs(m.Text, "/get_last_24h_news") -> handleGetLast24hNewsCommand(w, m, e, "/get_last_24h_news")
      [] TextIs(m.Text, "/sett") -> handleSetTariffCommand(w, m, e, "/sett")
      [] OTHER -> Send(w, m.Chat, "unknown_text")

\* CmdHandler.HandleMessages
CmdHandler_HandleMessages(w, m, e) ==
    IF w.live /\ w.cs.Stage # "" /\ ~TextIs(m.Text, "/start")
    THEN CmdHandler_continueConversation(w, m, e)
    ELSE CmdHandler_command(w, m, e)

----------------------------------------------------------------------------
(* The history variable: what the model remembers of a chat's open session *)

NoPicks == [x \in {} |-> {}]

\* pure: the session came from scratch or through "replace all";
\* picked: the info types committed for each category since then;
\* reps: the replacements <<old, new>> committed; wrote: the session's own
\* handlers saved a record; touched: an engine handler of any chat saved this
\* user's record; day, passes: the on-demand requests counted on one day;
\* flows: the sessions the chat has opened; backs: the times this session went back;
\* stopped: UserService.Stop has saved the user's record and no Start has since
Hist0 == [pure |-> FALSE, picked |-> NoPicks, reps |-> {}, wrote |-> FALSE, touched |-> FALSE,
          day |-> 0, passes |-> 0, flows |-> 0, backs |-> 0, stopped |-> FALSE]

NewFlow(h, fromScratch) ==
    [Hist0 EXCEPT !.pure = fromScratch, !.day = h.day, !.passes = h.passes, !.flows = h.flows,
                  !.stopped = h.stopped]

\* the effect of one trace entry on the history of chat c, whose message is handled
Remember(h, c, d, inFlow, now) ==
    LET hc == h[c]
        today == now \div DaySeconds
        seen == IF d.cat \in DOMAIN hc.picked THEN hc.picked[d.cat] ELSE {}
        mine == d.user = c /\ inFlow
        h1 == CASE d.op = "commit" ->
                     [h EXCEPT ![c].picked = IF hc.pure
                                             THEN Put(hc.picked, d.cat, seen \cup Range(d.infos))
                                             ELSE @,
                               ![c].reps = IF d.old # "" THEN @ \cup {<<d.old, d.cat>>} ELSE @]
                [] d.op = "replaceAll" ->
                     [h EXCEPT ![c].picked = NoPicks, ![c].reps = {}, ![c].pure = TRUE]
                [] d.op = "replaceSome" -> [h EXCEPT ![c].pure = FALSE, ![c].reps = {}]
                [] d.op = "count" ->
                     [h EXCEPT ![c].passes = IF hc.day = today THEN @ + 1 ELSE 1, ![c].day = today]
                [] d.op = "stop" -> [h EXCEPT ![c].stopped = TRUE]
                [] d.op = "start" -> [h EXCEPT ![c].stopped = FALSE]
                [] OTHER -> h
    IN IF d.op \in {"save", "count"} /\ d.user \in DOMAIN h
       THEN [h1 EXCEPT ![d.user].touched = TRUE, ![d.user].wrote = @ \/ mine]
       ELSE h1

RECURSIVE RememberAll(_, _, _, _, _)
RememberAll(h, c, trace, inFlow, now) ==
    IF trace = <<>> THEN h
    ELSE RememberAll(Remember(h, c, Head(trace), inFlow, now), c, Tail(trace), inFlow, now)

----------------------------------------------------------------------------
(* The state machine *)

\* 00:00 of the model's first day plus days, hours and minutes
At(day, hour, minute) == (20000 + day) * DaySeconds + hour * 3600 + minute * 60

Digits == {"1", "2", "3"}

\* the numeric selections a user types: up to MaxTokens numbers
DigitTexts == UNION {[1..n -> Digits] : n \in 1..MaxTokens}

WordTexts(words) == {<<x>> : x \in words}

AllPerms == {p \in [1..Len(AllCats) -> 1..Len(AllCats)] : Range(p) = 1..Len(AllCats)}

\* one iteration order for each order of the keys K (the other names keep their place)
PermsOf(K) ==
    {p \in AllPerms :
        \A i, j \in 1..Len(AllCats) :
            (i < j /\ AllCats[p[i]] \notin K) => (AllCats[p[j]] \notin K /\ p[i] < p[j])}

\* the maps whose iteration order a message of chat c can meet
KeysOf(c) ==
    (IF c \in DOMAIN store THEN DOMAIN store[c].Topics ELSE {})
        \cup (IF c \in DOMAIN convs THEN DOMAIN convs[c].Topics ELSE {})

Record(id, tariff, active, topics, lastSent, lastNow, count) ==
    [ZeroSettings EXCEPT !.UserID = id, !.UserName = Username[id], !.Tariff = tariff,
                         !.Active = active, !.Topics = topics, !.LastScheduledSent = lastSent,
                         !.LastGetNewsNow = lastNow, !.GetNewsNowCount = count]

\* what the event records of a text: a command or a word of the keyboard, folded
Word(text) ==
    IF Len(text) = 1 /\ text[1] \notin DOMAIN AtoiTable /\ text[1] # "my" THEN Fold(text[1]) ELSE ""

NoEvent == [kind |-> "init", chat |-> 0, word |-> "", route |-> "", trace |-> <<>>]

IdleSched == [pc |-> "idle", now |-> 0, users |-> <<>>]

\* the state after construction, given the engine, the repository, its content and the time
InitWith(engines, kinds, stores, t0) ==
    /\ impl \in engines
    /\ repoKind \in kinds
    /\ store \in stores
    /\ convs = [c \in {} |-> ZeroConv]
    /\ clock = t0
    /\ sched = IdleSched
    /\ sent = <<>>
    /\ gen = <<>>
    /\ ev = NoEvent
    /\ hist = [c \in Chats |-> Hist0]
    /\ halted = FALSE

\* the working state a handler of chat c starts from
Work(c) ==
    [store |-> store, cs |-> IF c \in DOMAIN convs THEN convs[c] ELSE ZeroConv,
     live |-> c \in DOMAIN convs, sent |-> <<>>, gen |-> <<>>, trace |-> <<>>, halted |-> FALSE]

\* App.handleMessage or CmdHandler.HandleMessages, as the process is built
Engine(w, m, e) ==
    IF impl = "App" THEN App_handleMessage(w, m, e) ELSE CmdHandler_HandleMessages(w, m, e)

\* the history of the chats as a message of chat c begins; started: it opens a session
HistAtStart(c, text, inFlow, started, topics) ==
    IF started
    THEN [hist EXCEPT ![c] = [NewFlow(@, TextIs(text, "/update_topics") /\ DOMAIN topics = {})
                              EXCEPT !.flows = @ + 1]]
    ELSE IF c \notin DOMAIN convs THEN [hist EXCEPT ![c] = NewFlow(@, FALSE)]
    ELSE IF inFlow /\ EqualFold(text, Back) THEN [hist EXCEPT ![c].backs = @ + 1]
    ELSE hist

\* the state that the handling of a message of chat c leaves: w0 before, w1 after
Outcome(c, text, w0, w1, inFlow, started) ==
    /\ (inFlow /\ EqualFold(text, Back)) => hist[c].backs < MaxBacks
    /\ store' = w1.store
    /\ convs' = IF w1.live THEN Put(convs, c, w1.cs) ELSE Del(convs, c)
    /\ sent' = w1.sent
    /\ gen' = w1.gen
    /\ halted' = w1.halted
    /\ ev' = [kind |-> "message", chat |-> c, word |-> Word(text),
              route |-> IF inFlow THEN "continue" ELSE "command", trace |-> w1.trace]
    /\ hist' = RememberAll(HistAtStart(c, text, inFlow, started, w1.cs.Topics), c, w1.trace,
                           inFlow, clock)

\* a message is in a flow when the chat has a session with a stage and the text is not /start
InFlow(w, text) == w.live /\ w.cs.Stage # "" /\ ~TextIs(text, "/start")

Handled(c, text, w0, w1) ==
    Outcome(c, text, w0, w1, InFlow(w0, text), ~InFlow(w0, text) /\ w1.live /\ w1.cs # w0.cs)

\* handleUpdates hands one message to the engine, which handles it to the end
Message(c, text, perm, rev, fault) ==
    /\ ~halted
    /\ Handled(c, text, Work(c),
               Engine(Work(c), [Chat |-> c, Text |-> text],
                      [now |-> clock, kind |-> repoKind, fault |-> fault, perm |-> perm, rev |-> rev]))
    /\ UNCHANGED <<impl, repoKind, clock, sched>>

\* the wall clock moves to the next instant of the timeline
Advance(timeline) ==
    /\ ~halted
    /\ \E i \in 1..Len(timeline) :
        /\ timeline[i] > clock
        /\ \A j \in 1..Len(timeline) : timeline[j] > clock => timeline[i] <= timeline[j]
        /\ clock' = timeline[i]
    /\ sent' = <<>>
    /\ gen' = <<>>
    /\ ev' = [NoEvent EXCEPT !.kind = "clock"]
    /\ UNCHANGED <<store, convs, impl, repoKind, sched, hist, halted>>

\* App.scheduleMessages: the ticker fires; the tick reads the active users and the time
Tick(rev, fault) ==
    /\ ~halted
    /\ sched.pc = "idle"
    /\ sched' = IF fault = "list" THEN IdleSched
                ELSE LET users == UserService_ActiveUsers(store, KeysInOrderOf(store, rev))
                     IN IF users = <<>> THEN IdleSched
                        ELSE [pc |-> "serve", now |-> clock, users |-> users]
    /\ sent' = <<>>
    /\ gen' = <<>>
    /\ ev' = [NoEvent EXCEPT !.kind = "tick"]
    /\ UNCHANGED <<store, convs, impl, repoKind, clock, hist, halted>>

\* a pass that reminds the user without topics and does not save the time of the reminder
ServeUser_unstamped(w, u, now, e) ==
    LET tariff == TariffOrBase(u.Tariff) IN
    IF ~inTimeRange(now, tariff.Schedule.TimeRange) THEN w
    ELSE IF now - u.LastScheduledSent < tariff.Schedule.FrequencyMinutes * 60 THEN w
    ELSE IF DOMAIN u.Topics = {}
    THEN Note(Send(w, u.UserID, "reminder"), Did("scheduled", u.UserID, "", <<>>, ""))
    ELSE LET g == UserService_GetNewsMultiInfo(w, u, e) IN
         IF g.err # "nil" THEN g.w
         ELSE LET u1 == [u EXCEPT !.LastScheduledSent = now]
                  r == repoSave(g.w.store, e.kind, u1, e.fault = "save")
              IN Note([Send(g.w, u.UserID, "digest") EXCEPT !.store = r.st],
                      Did("scheduled", u.UserID, "", <<>>, ""))

\* the body of the loop over users in App.scheduleMessages, for the user u read by the tick
ServeUser(w, u, now, e) ==
    LET tariff == TariffOrBase(u.Tariff) IN
    IF ~inTimeRange(now, tariff.Schedule.TimeRange) THEN w
    ELSE IF now - u.LastScheduledSent < tariff.Schedule.FrequencyMinutes * 60 THEN w
    ELSE IF DOMAIN u.Topics = {}
    THEN LET u1 == [u EXCEPT !.LastScheduledSent = now]
             r == repoSave(w.store, e.kind, u1, e.fault = "save")
         IN Note([Send(w, u.UserID, "reminder") EXCEPT !.store = r.st],
                 Did("scheduled", u.UserID, "", <<>>, ""))
    ELSE LET g == UserService_GetNewsMultiInfo(w, u, e) IN
         IF g.err # "nil" THEN g.w
         ELSE LET u1 == [u EXCEPT !.LastScheduledSent = now]
                  r == repoSave(g.w.store, e.kind, u1, e.fault = "save")
              IN Note([Send(g.w, u.UserID, "digest") EXCEPT !.store = r.st],
                      Did("scheduled", u.UserID, "", <<>>, ""))

\* the state that one pass of the loop over users leaves: w1 after the pass for user u
Served(u, w1) ==
    /\ store' = w1.store
    /\ sent' = w1.sent
    /\ gen' = w1.gen
    /\ halted' = w1.halted
    /\ ev' = [kind |-> "serve", chat |-> u.UserID, word |-> "", route |-> "", trace |-> w1.trace]
    /\ sched' = IF Len(sched.users) = 1 THEN IdleSched ELSE [sched EXCEPT !.users = Tail(@)]

\* App.scheduleMessages: the tick serves the next user it read
Serve(perm, fault) ==
    /\ ~halted
    /\ sched.pc = "serve"
    /\ Served(Head(sched.users),
              ServeUser(Work(0), Head(sched.users), sched.now,
                        [now |-> clock, kind |-> repoKind, fault |-> fault, perm |-> perm,
                         rev |-> FALSE]))
    /\ UNCHANGED <<convs, impl, repoKind, clock, hist>>

----------------------------------------------------------------------------
(* The topic flows of App: one chat configures, updates, extends and deletes its topics *)

TopicsStores ==
    { [c \in {} |-> ZeroSettings],
      (1 :> Record(1, "base", TRUE, ("Tech" :> <<"News">>), 0, 0, 0)),
      (1 :> Record(1, "base", TRUE, ("Tech" :> <<"News">>) @@ ("Science" :> <<"Facts">>), 0, 0, 0)),
      (1 :> Record(1, "plus", TRUE, ("Tech" :> <<"News">>), 0, 0, 0)),
      (1 :> Record(1, "premium", TRUE, ("Tech" :> <<"News">>), 0, 0, 0)) }

TopicsTexts ==
    WordTexts({"/update_topics", "/add_topic", "/delete_topics", Done, Back, Cancel, "my"})
        \cup DigitTexts

InitTopics == InitWith({"App"}, {"file"}, TopicsStores, At(0, 12, 0))

NextTopics ==
    \E text \in TopicsTexts, perm \in PermsOf(KeysOf(1)) :
        Message(1, text, perm, FALSE, "none") /\ hist'[1].flows <= MaxFlows

SpecTopics == InitTopics /\ [][NextTopics]_vars

----------------------------------------------------------------------------
(* Claims about the topic flows *)

\* the operations of the trace of the last step
Ops == {ev.trace[i].op : i \in 1..Len(ev.trace)}

\* the last step was a message of chat c that saved the topics of its session
SavedTopics(c) == ev.kind = "message" /\ ev.chat = c /\ ev.route = "continue" /\ "save" \in Ops

\* the selections of chat c's session stay within the limits of the tariff
WithinLimits(c) ==
    LET limits == TariffOrBase(store[c].Tariff).Limits
        picked == hist[c].picked
    IN /\ Cardinality(DOMAIN picked) <= limits.CategoryLimit
       /\ \A k \in DOMAIN picked : Cardinality(picked[k]) <= limits.InfoTypeLimit

\* the topics map has exactly the picked categories, each with exactly its picked info types
ExactlyPicked(topics, picked) ==
    /\ DOMAIN topics = DOMAIN picked
    /\ \A k \in DOMAIN topics : Range(topics[k]) = picked[k] /\ NoDup(topics[k])

\* C1: when the App update flow, entered from scratch or through "replace all", saves,
\* and the selections stayed within the tariff's limits, the stored topics map has
\* exactly the selected categories, each with exactly its selected info types, no duplicates
C1_SavedMapIsSelection ==
    \A c \in Chats :
        (impl = "App" /\ SavedTopics(c) /\ hist[c].pure /\ WithinLimits(c))
            => ExactlyPicked(store[c].Topics, hist[c].picked)

\* the map has NEW and has not OLD
Replaced(topics, old, new) == new \in DOMAIN topics /\ old \notin DOMAIN topics

\* the replacements of chat c's session by a different category
Replacements(c) == {r \in hist[c].reps : r[1] # r[2]}

\* C2 as the specification states it: at the save of a "replace some" session, for each
\* replacement of OLD by a different NEW the stored map has NEW and has not OLD
C2_EveryReplacementShows ==
    \A c \in Chats :
        (impl = "App" /\ SavedTopics(c) /\ ~hist[c].pure)
            => \A r \in Replacements(c) : Replaced(store[c].Topics, r[1], r[2])

\* no other replacement of the session takes r's NEW away or brings r's OLD back
Unchained(c, r) == \A q \in Replacements(c) : q[1] # r[2] /\ q[2] # r[1]

\* the commits of the last step that replace a category by a different one
ReplacingCommits == {i \in 1..Len(ev.trace) : /\ ev.trace[i].op = "commit"
                                               /\ ev.trace[i].old \notin {"", ev.trace[i].cat}}

\* C2: at the save of a "replace some" session the stored map has NEW and has not OLD for
\* each replacement of OLD by a different NEW that no other replacement of the session
\* undoes; the step that removes OLD inserts NEW, and writes the store only afterwards
C2_UnchainedReplacementShows ==
    \A c \in Chats :
        /\ (impl = "App" /\ SavedTopics(c) /\ ~hist[c].pure)
              => \A r \in Replacements(c) :
                    Unchained(c, r) => Replaced(store[c].Topics, r[1], r[2])
        /\ (impl = "App" /\ ev.kind = "message" /\ ev.chat = c)
              => \A i \in ReplacingCommits :
                    /\ \A j \in 1..Len(ev.trace) : ev.trace[j].op = "save" => i < j
                    /\ i = Len(ev.trace) =>
                          (c \in DOMAIN convs
                             /\ Replaced(convs[c].Topics, ev.trace[i].old, ev.trace[i].cat))

\* a "replace some" session saved after it replaced a category by a different one
C2_Witness ==
    /\ impl = "App" /\ SavedTopics(1) /\ ~hist[1].pure
    /\ ReplacingCommits # {}
    /\ \E r \in Replacements(1) : Unchained(1, r) /\ Replaced(store[1].Topics, r[1], r[2])

\* C3: every stored record has at most as many categories as its tariff's category limit
\* and at most as many info types in each category as its tariff's info-type limit
C3_RecordsWithinLimits ==
    \A u \in DOMAIN store :
        LET limits == TariffOrBase(store[u].Tariff).Limits
        IN /\ Cardinality(DOMAIN store[u].Topics) <= limits.CategoryLimit
           /\ \A k \in DOMAIN store[u].Topics : Len(store[u].Topics[k]) <= limits.InfoTypeLimit

\* chat c has a from-scratch App update session at the category stage, nothing completed,
\* and no record
FreshAtCategory(c) ==
    /\ impl = "App" /\ c \in DOMAIN convs /\ c \notin DOMAIN store
    /\ convs[c].UpdateTopics /\ ~convs[c].DeleteTopics
    /\ convs[c].Stage = "stageCategory" /\ convs[c].Step = 0

\* C7: "done" at the category stage of a from-scratch App update session of a user with
\* no record, before any category is complete, answers "no changes", removes the session
\* and leaves the store without a record of the user
C7_DoneWithNothingIsNoOp ==
    [][\A c \in Chats :
          (FreshAtCategory(c) /\ ev'.kind = "message" /\ ev'.chat = c /\ ev'.word = Done)
              => /\ sent' = <<<<c, "no_changes">>>>
                 /\ c \notin DOMAIN convs'
                 /\ store' = store]_vars

\* a user without a record said "done" at once and got "no changes"
C7_Witness ==
    /\ impl = "App" /\ ev.kind = "message" /\ ev.chat = 1 /\ ev.word = Done
    /\ sent = <<<<1, "no_changes">>>>
    /\ 1 \notin DOMAIN store /\ 1 \notin DOMAIN convs
    /\ hist[1].pure /\ hist[1].flows = 1

----------------------------------------------------------------------------
(* The on-demand flow beside the scheduler: one chat asks for news, the clock crosses
   midnight, and the ticker of scheduleMessages fires in between *)

NewsStores ==
    { (1 :> Record(1, "base", TRUE, ("Tech" :> <<"News">>), 0, 0, 0)),
      (1 :> Record(1, "base", TRUE, ("Tech" :> <<"News">>), 0, At(0, 20, 0), 3)) }

NewsTexts == WordTexts({"/get_news_now", Cancel}) \cup DigitTexts

NewsTimeline == <<At(1, 13, 30), At(2, 0, 30)>>

InitNews == InitWith({"App", "CmdHandler"}, {"file"}, NewsStores, At(1, 12, 0))

NewsMessage ==
    \E text \in NewsTexts, perm \in PermsOf(KeysOf(1)) :
        Message(1, text, perm, FALSE, "none") /\ hist'[1].flows <= MaxRequests

NewsClock == Advance(NewsTimeline)

NewsTick == Tick(FALSE, "none")

NewsServe ==
    /\ sched.pc = "serve"
    /\ \E perm \in PermsOf(DOMAIN Head(sched.users).Topics) : Serve(perm, "none")

NextNews == NewsMessage \/ NewsClock \/ NewsTick \/ NewsServe

SpecNews == InitNews /\ [][NextNews]_vars


\* chat c has had three on-demand requests pass the quota check today, on a quota of 3
QuotaUsed(c) ==
    /\ c \in DOMAIN store
    /\ TariffOrBase(store[c].Tariff).Limits.GetNewsNowPerDay = 3
    /\ hist[c].passes >= 3
    /\ hist[c].day = clock \div DaySeconds

\* the step handles an on-demand request of chat c: the /get_news_now command, or
\* an answer at the category selection that is not turned down as no selection
NewsRequest(c) ==
    /\ ev'.kind = "message"
    /\ ev'.chat = c
    /\ \/ ev'.route = "command" /\ ev'.word = "/get_news_now"
       \/ /\ ev'.route = "continue"
          /\ ev'.word = ""
          /\ c \in DOMAIN convs
          /\ convs[c].Stage = "stageGetNewsCategory"
          /\ sent' # <<<<c, "choose_category_number">>>>

Refused(c) ==
    /\ sent' = <<<<c, "limit_today">>>>
    /\ gen' = <<>>
    /\ store'[c].GetNewsNowCount = store[c].GetNewsNowCount
    /\ c \notin DOMAIN convs'

\* C4: on a quota of 3 a day, once three on-demand requests of a chat have passed
\* the quota check on one day, a further request on that day, at the command or
\* at the category selection, is answered with the quota-exceeded message, calls
\* no content generation, leaves the stored counter as it was and leaves the
\* chat without a session.
C4_FourthRequestRefused ==
    [][\A c \in Chats : (QuotaUsed(c) /\ NewsRequest(c)) => Refused(c)]_vars

\* the step is a request of chat c at the category selection that passes the quota check
CountedRequest(c) ==
    /\ ev'.kind = "message"
    /\ ev'.chat = c
    /\ c \in DOMAIN convs
    /\ c \in DOMAIN store
    /\ convs[c].Stage = "stageGetNewsCategory"
    /\ \E i \in 1..Len(ev'.trace) : ev'.trace[i].op = "count"

\* C5: a request that passes the quota check persists the count 1 when the stored
\* last-on-demand time is on another calendar day than now, and the stored count
\* plus 1 when it is on the same day.
C5_CountResetsPerDay ==
    [][\A c \in Chats :
          CountedRequest(c) =>
              store'[c].GetNewsNowCount =
                  IF OtherDay(clock, store[c].LastGetNewsNow) THEN 1
                  ELSE store[c].GetNewsNowCount + 1]_vars

----------------------------------------------------------------------------
(* Sessions and their cancellation: chat 1 opens a session of any flow and
   answers it, the privileged chat 2 sets tariffs, under both engines *)

CancelStores ==
    { [c \in {} |-> ZeroSettings],
      (1 :> Record(1, "premium", TRUE, ("Tech" :> <<"News">>), 0, 0, 0)) }

UserTexts ==
    WordTexts({"/start", "/update_topics", "/add_topic", "/add_topics", "/delete_topics",
               "/get_news_now", "/get_last_24h_news", Continue, Done, "otmena"})
        \cup WordTexts(Digits)

AdminTexts == WordTexts({"/sett", "ALICE", "base", Cancel})

InitCancel == InitWith({"App", "CmdHandler"}, {"file"}, CancelStores, At(0, 12, 0))

UserMessage ==
    \E text \in UserTexts, perm \in PermsOf(KeysOf(1)) :
        Message(1, text, perm, FALSE, "none") /\ hist'[1].flows <= MaxFlows

AdminMessage ==
    \E text \in AdminTexts : Message(2, text, IdPerm, FALSE, "none") /\ hist'[2].flows <= MaxFlows

NextCancel == UserMessage \/ AdminMessage

SpecCancel == InitCancel /\ [][NextCancel]_vars

\* the step handles the cancel word, in any case, sent by chat c into its session
Cancels(c) ==
    /\ c \in DOMAIN convs
    /\ convs[c].Stage # ""
    /\ ev'.kind = "message" /\ ev'.chat = c /\ ev'.route = "continue" /\ ev'.word = Cancel

\* the cancel step removes the session of chat c and writes nothing
Cancelled(c) ==
    /\ c \notin DOMAIN convs'
    /\ store' = store
    /\ sent' = <<<<c, "cancelled">>>>

\* C6 as the specification states it: at a cancel the session goes, and the engine
\* has written nothing to the user's record since the session was opened
C6_NoEngineWriteBeforeCancel ==
    [][\A c \in Chats : Cancels(c) => (Cancelled(c) /\ ~hist[c].touched)]_vars

\* C6: in every stage of every flow, under both engines, the cancel word in any case
\* removes the chat's session, is answered "cancelled" and writes nothing, and the
\* handlers of that session have written nothing to the user's record since it was
\* opened (a tariff set from the privileged chat meanwhile stays)
C6_NoOwnWriteBeforeCancel ==
    [][\A c \in Chats : Cancels(c) => (Cancelled(c) /\ ~hist[c].wrote)]_vars

\* chat 1 cancelled a session during which the privileged chat set its tariff
C6_Witness ==
    /\ ev.kind = "message" /\ ev.chat = 1 /\ ev.route = "continue" /\ ev.word = Cancel
    /\ sent = <<<<1, "cancelled">>>>
    /\ 1 \notin DOMAIN convs
    /\ hist[1].touched /\ ~hist[1].wrote
    /\ store[1].Tariff = "base"

----------------------------------------------------------------------------
(* The scheduler beside the event loop: the clock passes 07:59 and 08:01, the
   ticker fires, and the chat stops, starts and asks for news meanwhile *)

SchedStores ==
    { (1 :> Record(1, "base", TRUE, ("Tech" :> <<"News">>), 0, 0, 0)),
      (1 :> Record(1, "base", TRUE, ("Tech" :> <<"News">>), 0, 0, 0))
          @@ (2 :> Record(2, "premium", TRUE, EmptyMap, 0, 0, 0)) }

SchedTexts == WordTexts({"/stop", "/start", "/get_news_now", "1"})

SchedTimeline == <<At(1, 8, 1), At(1, 9, 30)>>

InitSched == InitWith({"App", "CmdHandler"}, {"file"}, SchedStores, At(1, 7, 59))

SchedMessage ==
    \E text \in SchedTexts, perm \in PermsOf(KeysOf(1)) :
        Message(1, text, perm, FALSE, "none") /\ hist'[1].flows <= MaxFlows

SchedClock == Advance(SchedTimeline)

SchedTick == \E rev \in BOOLEAN : Tick(rev, "none")

SchedServe ==
    /\ sched.pc = "serve"
    /\ \E perm \in PermsOf(DOMAIN Head(sched.users).Topics) : Serve(perm, "none")

NextSched == SchedMessage \/ SchedClock \/ SchedTick \/ SchedServe

SpecSched == InitSched /\ [][NextSched]_vars

\* the step is the scheduler's pass for the next user the tick read; u is that copy
Serves(u) == sched.pc = "serve" /\ ev'.kind = "serve" /\ u = Head(sched.users)

\* the tick that read u began at hour:minute of its day
TickAt(hour, minute) == sched.now % DaySeconds = hour * 3600 + minute * 60

\* an active user with topics whose tariff's window is "08:00-23:00"
DayUser(u) ==
    /\ u.Active
    /\ DOMAIN u.Topics # {}
    /\ TariffOrBase(u.Tariff).Schedule.TimeRange = <<"08:00", "23:00">>

\* C8: for an active user with topics and the window "08:00-23:00", the pass of a tick
\* of 07:59 sends nothing, generates nothing and leaves the store as it is; the pass of
\* a tick of 08:01 for a user read with last-scheduled-send 0 generates and sends one
\* digest to the user and stores the tick's time as the last-scheduled-send
C8_WindowOpensAtEight ==
    [][\A i \in 1..Len(sched.users) :
          LET u == sched.users[i] IN
          (Serves(u) /\ DayUser(u)) =>
              /\ TickAt(7, 59) => (sent' = <<>> /\ gen' = <<>> /\ store' = store)
              /\ (TickAt(8, 1) /\ u.LastScheduledSent = 0) =>
                    /\ sent' = <<<<u.UserID, "digest">>>>
                    /\ gen' # <<>>
                    /\ \A j \in 1..Len(gen') : gen'[j][2] = gen'[1][2]
                    /\ store'[u.UserID].LastScheduledSent = sched.now]_vars

\* the tick of 08:01 has sent user 1 a digest after the clock moved on to 09:30
C8_Witness ==
    /\ ev.kind = "serve" /\ ev.chat = 1
    /\ sent = <<<<1, "digest">>>>
    /\ gen # <<>>
    /\ store[1].LastScheduledSent = At(1, 8, 1)
    /\ clock = At(1, 9, 30)

\* the tick of 07:59 has passed user 1 by after the clock moved on to 08:01
C8_WitnessSkip ==
    /\ ev.kind = "serve" /\ ev.chat = 1
    /\ sent = <<>>
    /\ store[1].LastScheduledSent = 0
    /\ clock = At(1, 8, 1)

\* the step is the scheduler's Save of the copy u
SchedulerSaves(u) ==
    Serves(u) /\ \E i \in 1..Len(ev'.trace) : ev'.trace[i].op = "scheduled"

\* C9: the scheduler's Save for a user changes nothing of the stored record but the
\* last-scheduled-send: the topics, the tariff, the active flag and the quota counters
\* stay as the engine and UserService last wrote them
C9_SchedulerWritesOnlyItsStamp ==
    [][\A i \in 1..Len(sched.users) :
          LET u == sched.users[i] IN
          (SchedulerSaves(u) /\ u.UserID \in DOMAIN store) =>
              store' = [store EXCEPT ![u.UserID].LastScheduledSent = sched.now]]_vars

\* the step handles /start of chat c
Starts(c) == ev'.kind = "message" /\ ev'.chat = c /\ ev'.word = "/start"

\* C10: from the /stop of a user to the user's next /start the stored active flag stays
\* false, and a tick that starts in between does not take the user among those it serves
C10_StoppedStaysStopped ==
    [][\A c \in Chats :
          (hist[c].stopped /\ ~Starts(c)) =>
              /\ c \in DOMAIN store' /\ ~store'[c].Active
              /\ ev'.kind = "tick" =>
                    \A i \in 1..Len(sched'.users) : sched'.users[i].UserID # c]_vars

----------------------------------------------------------------------------
(* The flows of App under faults: one chat runs the topic, delete, on-demand and
   last-24h flows while a repository call or a generation call may fail *)

FaultStores ==
    { (1 :> Record(1, "premium", TRUE, ("Tech" :> <<"News">>), 0, 0, 0)),
      (1 :> Record(1, "base", TRUE, ("Tech" :> <<"News">>), 0, At(0, 11, 0), 3)) }

FaultTexts ==
    WordTexts({"/update_topics", "/delete_topics", "/get_news_now", "/get_last_24h_news",
               Done, "otmena", "1", "2"})

\* the call that fails while a message is handled, if the handler makes it
Faults == {"none", "get", "save", "gen"}

InitFaults == InitWith({"App"}, {"file", "postgres"}, FaultStores, At(0, 12, 0))

\* the environment of a handler call at this instant
EnvAt(perm, fault) ==
    [now |-> clock, kind |-> repoKind, fault |-> fault, perm |-> perm, rev |-> FALSE]

\* the state w1 a handler leaves, with a note in its trace when the failing call was
\* made: the handler then leaves another state than without the fault (wOk)
Marked(w1, wOk) == IF w1 = wOk THEN w1 ELSE Note(w1, Did("fault", 0, "", <<>>, ""))

\* one message of chat 1, handled while the call named by fault fails
FaultyMessage(text, perm, fault) ==
    /\ ~halted
    /\ Handled(1, text, Work(1),
               Marked(Engine(Work(1), [Chat |-> 1, Text |-> text], EnvAt(perm, fault)),
                      Engine(Work(1), [Chat |-> 1, Text |-> text], EnvAt(perm, "none"))))
    /\ UNCHANGED <<impl, repoKind, clock, sched>>
    /\ hist'[1].flows <= MaxFlows + 1

NextFaults ==
    \E text \in FaultTexts, perm \in PermsOf(KeysOf(1)), fault \in Faults :
        FaultyMessage(text, perm, fault)

SpecFaults == InitFaults /\ [][NextFaults]_vars

----------------------------------------------------------------------------
(* Claims about the session map *)

\* chat c was sent one of the messages keys in the list s
Told(s, c, keys) == \E i \in 1..Len(s) : s[i][1] = c /\ s[i][2] \in keys

\* the messages that report the end of a flow: the topics were saved, the digest was
\* delivered, nothing was changed, the flow was cancelled, the quota is used up
TerminalKeys ==
    {"settings_saved", "settings_updated", "news", "no_changes", "cancelled", "limit_today"}

\* the commands that open a session
MultiTurn ==
    {"/start", "/update_topics", "/add_topic", "/add_topics", "/delete_topics",
     "/get_news_now", "/get_last_24h_news", "/sett"}

\* the last step was a message of a flow of chat c that ended the flow: it reported
\* the end, or a call it made failed
EndedFlow(c) ==
    /\ ev.kind = "message" /\ ev.chat = c /\ ev.route = "continue"
    /\ Told(sent, c, TerminalKeys) \/ "fault" \in Ops

\* C11: after a message that ends a flow (topics saved, digest delivered, "no changes",
\* cancel, quota exceeded, or a storage or generation fault) the session map has no
\* entry for the chat, and an entry for the chat appears again only through a command
\* that opens a session
C11_SessionEndsWithFlow ==
    [][ /\ EndedFlow(1)' => 1 \notin DOMAIN convs'
        /\ (1 \notin DOMAIN convs /\ 1 \in DOMAIN convs')
              => (ev'.kind = "message" /\ ev'.chat = 1 /\ ev'.route = "command"
                  /\ ev'.word \in MultiTurn) ]_vars

\* a generation fault has ended the on-demand flow: the request was counted, no digest
\* was delivered, the session is gone
C11_Witness ==
    /\ ev.kind = "message" /\ ev.chat = 1 /\ ev.route = "continue"
    /\ "count" \in Ops /\ "fault" \in Ops
    /\ ~Told(sent, 1, {"news"})
    /\ 1 \notin DOMAIN convs

\* a later session of the same chat has been opened after a flow ended
C11_WitnessAgain ==
    /\ 1 \in DOMAIN convs
    /\ hist[1].flows > 1

----------------------------------------------------------------------------
(* A chat without a record: it runs the update flow, while a client of the
   repository reads and deletes records as the repository tests do *)

FreshStores == { [c \in {} |-> ZeroSettings] }

FreshTexts == WordTexts({"/update_topics", Done, "1", "2"})

InitFresh == InitWith({"App", "CmdHandler"}, {"file", "postgres"}, FreshStores, At(0, 12, 0))

\* repo.Delete
repoDelete(st, kind, userID, fault) ==
    IF fault /\ kind = "postgres" THEN [err |-> "fault", st |-> st]
    ELSE [err |-> IF fault THEN "fault" ELSE "nil", st |-> Del(st, userID)]

FreshMessage ==
    \E text \in FreshTexts, perm \in PermsOf(KeysOf(1)) :
        Message(1, text, perm, FALSE, "none") /\ hist'[1].flows <= MaxFlows + 1

\* a client calls repo.Get for user u; the event records the error it gets
FreshGet(u) ==
    /\ ~halted
    /\ ev' = [NoEvent EXCEPT !.kind = "get", !.chat = u,
                             !.word = repoGet(store, repoKind, u, FALSE).err]
    /\ sent' = <<>>
    /\ gen' = <<>>
    /\ UNCHANGED <<store, convs, impl, repoKind, clock, sched, hist, halted>>

\* a client calls repo.Delete for user u, who has a record
FreshDelete(u) ==
    /\ ~halted
    /\ u \in DOMAIN store
    /\ store' = repoDelete(store, repoKind, u, FALSE).st
    /\ ev' = [NoEvent EXCEPT !.kind = "delete", !.chat = u]
    /\ sent' = <<>>
    /\ gen' = <<>>
    /\ UNCHANGED <<convs, impl, repoKind, clock, sched, hist, halted>>

NextFresh ==
    \/ FreshMessage
    \/ \E u \in Chats : FreshGet(u)
    \/ \E u \in Chats : FreshDelete(u)

SpecFresh == InitFresh /\ [][NextFresh]_vars

\* the step ends an update flow of chat 1 at saveTopics: the last category was
\* committed and the session is gone
UpdateFlowEnds ==
    /\ 1 \in DOMAIN convs /\ 1 \notin DOMAIN convs'
    /\ ev'.kind = "message" /\ ev'.chat = 1 /\ ev'.route = "continue"
    /\ \E i \in 1..Len(ev'.trace) : ev'.trace[i].op = "commit"

\* C12: with either repository, Get for a user without a record fails with an error
\* that satisfies the not-exist condition, so that the saveTopics that ends the update
\* flow of a user without a record, a flow that chose its topics from scratch, stores
\* a new record with the chosen topics
C12_AbsentUserIsUnconfigured ==
    [][ /\ (ev'.kind = "get" /\ ev'.chat \notin DOMAIN store') => IsNotExist(ev'.word)
        /\ (1 \notin DOMAIN store /\ hist[1].pure /\ UpdateFlowEnds)
              => (1 \in DOMAIN store' /\ ExactlyPicked(store'[1].Topics, hist'[1].picked)) ]_vars

----------------------------------------------------------------------------
(* The first-time setup of CmdHandler under a configuration whose base tariff allows
   two categories of two info types each: the chat has pressed "continue" *)

\* the session that handleStageStartWelcome leaves under that configuration
SetupConv ==
    setStage([ZeroConv EXCEPT !.Cmd = "/start", !.Stage = "StageStartWelcome", !.Step = 0,
                              !.CategoryLimit = 2, !.InfoLimit = 2,
                              !.AllowCustomCategory = FALSE],
             "StageStartChooseCategoryCount")

SetupTexts == DigitTexts \cup WordTexts({Done})

InitSetup ==
    /\ impl = "CmdHandler"
    /\ repoKind \in {"file", "postgres"}
    /\ store = [c \in {} |-> ZeroSettings]
    /\ convs = (1 :> SetupConv)
    /\ clock = At(0, 12, 0)
    /\ sched = IdleSched
    /\ sent = <<>>
    /\ gen = <<>>
    /\ ev = NoEvent
    /\ hist = [c \in Chats |-> IF c = 1 THEN [Hist0 EXCEPT !.pure = TRUE, !.flows = 1] ELSE Hist0]
    /\ halted = FALSE

NextSetup ==
    \E text \in SetupTexts, perm \in PermsOf(KeysOf(1)) : Message(1, text, perm, FALSE, "none")

SpecSetup == InitSetup /\ [][NextSetup]_vars

\* the commits of the last step: the categories with the info types committed for them
Commits(trace) ==
    {<<trace[i].cat, trace[i].infos>> : i \in {j \in 1..Len(trace) : trace[j].op = "commit"}}

\* the chat chose 2 categories, then Tech with News and Facts, then Science
TechChosen ==
    /\ 1 \in DOMAIN convs
    /\ convs[1].Cmd = "/start" /\ convs[1].Stage = "StageStartInfoTypes"
    /\ convs[1].CategoryLimit = 2 /\ convs[1].InfoLimit = 2 /\ convs[1].Step = 1
    /\ convs[1].Topics = ("Tech" :> <<"News", "Facts">>)
    /\ convs[1].CurrentCat = "Science" /\ convs[1].SelectedInfos = <<>>

TechAndScience == ("Tech" :> <<"News", "Facts">>) @@ ("Science" :> <<"Facts">>)

----------------------------------------------------------------------------
(* UserService and the repository under a client that calls them one at a time, as
   the tests of the service and of the repositories do *)

\* a SetTariff that does not look the tariff up in the table
UserService_SetAnyTariff(w, userID, tariff, e) ==
    LET g == repoGet(w.store, e.kind, userID, e.fault = "get") IN
    IF g.err # "nil" THEN [w |-> w, err |-> g.err]
    ELSE [w |-> [w EXCEPT !.store = repoSave(w.store, e.kind, [g.val EXCEPT !.Tariff = tariff],
                                             FALSE).st],
          err |-> "nil"]

\* UserService.SetTariff
UserService_SetTariff(w, userID, tariff, e) ==
    IF ~HasTariff(tariff) THEN [w |-> w, err |-> "unknown tariff"]
    ELSE LET g == repoGet(w.store, e.kind, userID, e.fault = "get") IN
         IF g.err # "nil" THEN [w |-> w, err |-> g.err]
         ELSE LET r == repoSave(w.store, e.kind, [g.val EXCEPT !.Tariff = tariff],
                                e.fault = "save")
              IN [w |-> Note([w EXCEPT !.store = r.st], Did("save", userID, "", <<>>, "")),
                  err |-> r.err]

\* the records the client saves: every field of the first differs from its zero value
SaveRecords ==
    { [Record(1, "plus", TRUE, ("Tech" :> <<"News", "Facts">>), At(0, 9, 0), At(0, 10, 0), 2)
          EXCEPT !.LastGetLast24h = At(0, 11, 0), !.GetLast24hCount = 1],
      Record(1, "", FALSE, ("Science" :> <<"Facts">>), At(0, 9, 0), At(0, 10, 0), 1),
      Record(2, "base", FALSE, EmptyMap, 0, 0, 0) }

ServiceStores ==
    { [c \in {} |-> ZeroSettings],
      (1 :> Record(1, "", FALSE, ("Tech" :> <<"News">>), At(0, 9, 0), At(0, 10, 0), 2)) }

\* the tariff names the client passes; "ultimate" is not in the tariff table
TariffNames == {"base", "plus", "ultimate"}

InitService == InitWith({"App"}, {"file", "postgres"}, ServiceStores, At(0, 12, 0))

\* the state a call of the client leaves: the store, and the event with the call's
\* name, user, argument, error and result
Called(kind, u, arg, err, st, result) ==
    /\ ~halted
    /\ store' = st
    /\ ev' = [kind |-> kind, chat |-> u, word |-> err, route |-> arg, trace |-> result]
    /\ sent' = <<>>
    /\ gen' = <<>>
    /\ UNCHANGED <<convs, impl, repoKind, clock, sched, hist, halted>>

CallStart(u, r) == Called("Start", u, "", r.err, r.w.store, <<>>)

CallStop(u, r) == Called("Stop", u, "", r.err, r.w.store, <<>>)

CallSetTariff(u, t, r) == Called("SetTariff", u, t, r.err, r.w.store, <<>>)

CallSave(rec, r) == Called("Save", rec.UserID, "", r.err, r.st, <<rec>>)

CallGet(u, g) == Called("Get", u, "", g.err, store, IF g.err = "nil" THEN <<g.val>> ELSE <<>>)

CallDelete(u, r) == Called("Delete", u, "", r.err, r.st, <<>>)

NextService ==
    \/ \E u \in Chats : CallStart(u, UserService_Start(Work(0), u, Username[u], EnvAt(IdPerm, "none")))
    \/ \E u \in Chats : CallStop(u, UserService_Stop(Work(0), u, EnvAt(IdPerm, "none")))
    \/ \E u \in Chats, t \in TariffNames :
            CallSetTariff(u, t, UserService_SetTariff(Work(0), u, t, EnvAt(IdPerm, "none")))
    \/ \E rec \in SaveRecords : CallSave(rec, repoSave(store, repoKind, rec, FALSE))
    \/ \E u \in Chats : CallGet(u, repoGet(store, repoKind, u, FALSE))
    \/ \E u \in Chats : CallDelete(u, repoDelete(store, repoKind, u, FALSE))

SpecService == InitService /\ [][NextService]_vars

\* the last call was the call named kind for user u
Call(kind, u) == ev'.kind = kind /\ ev'.chat = u

\* the store after the call differs from the store before it at most in u's record
OnlyRecord(u) == \A v \in (DOMAIN store \cup DOMAIN store') \ {u} : v \in DOMAIN store /\ v \in DOMAIN store' /\ store'[v] = store[v]

\* the record that Start creates for a user without one
StartedRecord(u) ==
    [ZeroSettings EXCEPT !.UserID = u, !.UserName = Username[u], !.Tariff = "base", !.Active = TRUE]

\* C14: Start makes the user active: it creates a record with tariff "base" and
\* active = true when the store reports not-exist, and changes only the active flag (and an
\* empty tariff, to "base") of an existing record; Stop sets active = false on an
\* existing record and changes nothing else, and fails without creating a record for
\* an absent user; after Start followed by Stop the stored record is inactive
C14_StartStop ==
    [][ \A u \in Chats :
          /\ Call("Start", u) => (u \in DOMAIN store' /\ store'[u].Active)
          /\ (Call("Start", u) /\ IsNotExist(repoGet(store, repoKind, u, FALSE).err))
                => (ev'.word = "nil" /\ store' = Put(store, u, StartedRecord(u)))
          /\ (Call("Start", u) /\ u \in DOMAIN store)
                => /\ ev'.word = "nil"
                   /\ store' = [store EXCEPT ![u].Active = TRUE,
                                             ![u].Tariff = IF @ = "" THEN "base" ELSE @]
          /\ (Call("Stop", u) /\ u \in DOMAIN store)
                => (ev'.word = "nil" /\ store' = [store EXCEPT ![u].Active = FALSE])
          /\ (Call("Stop", u) /\ u \notin DOMAIN store)
                => (ev'.word # "nil" /\ store' = store)
          /\ (Call("Stop", u) /\ ev.kind = "Start" /\ ev.chat = u)
                => (u \in DOMAIN store' /\ ~store'[u].Active) ]_vars

\* C15: SetTariff(user, t) with t in the tariff table and the user present sets the
\* user's stored tariff to t and changes no other field and no other user; with t absent
\* from the table, or the user absent, it returns an error and writes nothing
C15_SetTariff ==
    [][ \A u \in Chats, t \in TariffNames :
          (Call("SetTariff", u) /\ ev'.route = t)
              => IF HasTariff(t) /\ u \in DOMAIN store
                 THEN ev'.word = "nil" /\ store' = [store EXCEPT ![u].Tariff = t]
                 ELSE ev'.word # "nil" /\ store' = store ]_vars

\* SetTariff has moved a stored user, with topics and stamps, from one tariff to another
C15_Witness ==
    /\ ev.kind = "SetTariff" /\ ev.word = "nil" /\ ev.route = "plus"
    /\ ev.chat \in DOMAIN store
    /\ store[ev.chat].Tariff = "plus"
    /\ DOMAIN store[ev.chat].Topics # {} /\ store[ev.chat].GetNewsNowCount > 0

\* SetTariff has refused a name that is not in the tariff table, for a stored user
C15_WitnessRefused ==
    /\ ev.kind = "SetTariff" /\ ev.word = "unknown tariff" /\ ev.route = "ultimate"
    /\ ev.chat \in DOMAIN store

\* C16: with either repository, a Get that follows a Save of record r for the same
\* user, with no other write in between, returns a record equal to r in every field:
\* topics, active flag, tariff, the scheduled-send stamp, the on-demand stamp and count,
\* and the last-24h stamp and count
C16_GetReturnsSaved ==
    [][ \A u \in Chats :
          (ev.kind = "Save" /\ ev.chat = u /\ ev.word = "nil" /\ Call("Get", u))
              => (ev'.word = "nil" /\ ev'.trace = ev.trace) ]_vars

----------------------------------------------------------------------------
(* The scheduler's frequency: ticks one minute apart while the chat asks for news on
   demand, stops and starts.  hist[0] remembers, for each user, the time of the tick
   that last sent the user a scheduled message (0: none yet), and under 0 the time of
   the last tick. *)

FreqStores ==
    { (1 :> Record(1, "base", TRUE, ("Tech" :> <<"News">>), At(1, 10, 0), 0, 0)),
      (1 :> Record(1, "base", TRUE, EmptyMap, At(1, 10, 0), 0, 0)) }

FreqTexts == WordTexts({"/get_news_now", "/stop", "/start", "1"})

FreqTimeline == <<At(1, 12, 1), At(1, 13, 1)>>

InitFreq ==
    /\ impl = "App"
    /\ repoKind \in {"file", "postgres"}
    /\ store \in FreqStores
    /\ convs = [c \in {} |-> ZeroConv]
    /\ clock = At(1, 12, 0)
    /\ sched = IdleSched
    /\ sent = <<>>
    /\ gen = <<>>
    /\ ev = NoEvent
    /\ hist = (0 :> [u \in Chats \cup {0} |-> 0]) @@ [c \in Chats |-> Hist0]
    /\ halted = FALSE

FreqMessage ==
    \E text \in FreqTexts, perm \in PermsOf(KeysOf(1)) :
        Message(1, text, perm, FALSE, "none") /\ hist'[1].flows <= MaxFlows

FreqClock == Advance(FreqTimeline)

\* App.scheduleMessages: the ticker fires, a minute or more after it last did; the tick
\* reads the active users and the time
FreqTick ==
    /\ ~halted
    /\ sched.pc = "idle"
    /\ clock # hist[0][0]
    /\ sched' = LET users == UserService_ActiveUsers(store, KeysInOrderOf(store, FALSE))
                IN IF users = <<>> THEN IdleSched
                   ELSE [pc |-> "serve", now |-> clock, users |-> users]
    /\ hist' = [hist EXCEPT ![0][0] = clock]
    /\ sent' = <<>>
    /\ gen' = <<>>
    /\ ev' = [NoEvent EXCEPT !.kind = "tick"]
    /\ UNCHANGED <<store, convs, impl, repoKind, clock, halted>>

\* the pass for user u has sent a scheduled message when its trace says so
Scheduled(trace) == \E i \in 1..Len(trace) : trace[i].op = "scheduled"

\* the state the pass for user u leaves, with the time of the send remembered
FreqServed(u, w1) ==
    /\ Served(u, w1)
    /\ hist' = IF Scheduled(w1.trace) THEN [hist EXCEPT ![0][u.UserID] = sched.now] ELSE hist
    /\ UNCHANGED <<convs, impl, repoKind, clock>>

\* App.scheduleMessages: the tick serves the next user it read
FreqServe ==
    /\ ~halted
    /\ sched.pc = "serve"
    /\ \E perm \in PermsOf(DOMAIN Head(sched.users).Topics) :
          FreqServed(Head(sched.users),
                     ServeUser(Work(0), Head(sched.users), sched.now, EnvAt(perm, "none")))

NextFreq == FreqMessage \/ FreqClock \/ FreqTick \/ FreqServe

SpecFreq == InitFreq /\ [][NextFreq]_vars

\* C17: two consecutive scheduled sends to a user (digest or reminder) are at least the
\* tariff's FrequencyMinutes apart, however the ticks interleave with the writes of
\* the event loop to the user's record
C17_SendsKeepFrequency ==
    [][ \A u \in Chats :
          (ev'.kind = "serve" /\ ev'.chat = u /\ Scheduled(ev'.trace) /\ hist[0][u] # 0)
              => sched.now - hist[0][u]
                    >= TariffOrBase(Head(sched.users).Tariff).Schedule.FrequencyMinutes * 60 ]_vars

----------------------------------------------------------------------------
(* The first-time flow of App: the session that handleStartCommand opens for a user
   without a record, after the welcome step *)

\* chat c is in the first-time flow of App, at the stage that asks for the number of
\* categories
AppAsksCount(c) ==
    /\ impl = "App"
    /\ c \in DOMAIN convs
    /\ convs[c].Stage = "stageChooseCategoryCount"
    /\ ~convs[c].UpdateTopics /\ ~convs[c].DeleteTopics

\* the integers from 1 to the category limit of the base tariff, as the user types them
ValidCounts == {d \in Digits : AtoiTable[d] \in 1..Tariffs["base"].Limits.CategoryLimit}

\* the session of chat c after App has handled the text in the present state
AfterText(c, text) == Engine(Work(c), [Chat |-> c, Text |-> text], EnvAt(IdPerm, "none"))

\* C18: in the first-time flow of App, after the welcome step, a message with an integer
\* from 1 to the category limit of the base tariff sets the working category limit to
\* that integer and moves the session to the choose-category stage (so that the user who
\* keeps sending valid input reaches saveTopics)
C18_FirstTimeCountAdvances ==
    AppAsksCount(1) =>
        \A d \in ValidCounts :
            /\ AfterText(1, <<d>>).live
            /\ AfterText(1, <<d>>).cs.Stage = "stageCategory"
            /\ AfterText(1, <<d>>).cs.CategoryLimit = AtoiTable[d]

----------------------------------------------------------------------------
(* The stages of CmdHandler that parse a number or a numeric selection *)

NumericStages == {"StageStartChooseCategoryCount", "StageStartCategory", "StageUpdateTopicsChoice"}

\* no valid value can be parsed from the text at the stage of session cs
Unparsable(cs, text) ==
    CASE cs.Stage = "StageStartChooseCategoryCount" ->
            ~AtoiText(text).ok \/ AtoiText(text).n < 1 \/ AtoiText(text).n > cs.CategoryLimit
      [] cs.Stage = "StageStartCategory" ->
            parseSelection(text, addCustomOption(categoryOptions, cs.AllowCustomCategory), 1) = <<>>
      [] cs.Stage = "StageUpdateTopicsChoice" ->
            parseSelection(text, <<"UpdateAll", "UpdateSome">>, 1) = <<>>
      [] OTHER -> FALSE

\* the texts of the user that reach the handler of the stage
StageTexts == {text \in UserTexts : ~EqualFold(text, Cancel) /\ ~TextIs(text, "/start")}

\* handling left w: the stage is asked again, the session (cs before) and the store are
\* as before, and the process runs
Reprompted(cs, w) ==
    /\ ~w.halted
    /\ w.live
    /\ w.cs.Stage = cs.Stage /\ w.cs.Step = cs.Step
    /\ w.cs.CategoryLimit = cs.CategoryLimit /\ w.cs.Topics = cs.Topics
    /\ w.store = store
    /\ Len(w.sent) = 1

\* C19: at every stage of CmdHandler that parses a number or a numeric selection (the
\* first-time category count, the first-time category choice, the update-mode choice), a
\* message from which no valid value can be parsed asks the same stage again: the stage,
\* the step counter, the working category limit and the working topics are unchanged,
\* nothing is written to the store and the process does not crash
C19_InvalidInputReprompts ==
    (impl = "CmdHandler" /\ ~halted /\ 1 \in DOMAIN convs /\ convs[1].Stage \in NumericStages)
        => \A text \in StageTexts :
              Unparsable(convs[1], text) => Reprompted(convs[1], AfterText(1, text))

----------------------------------------------------------------------------
(* The update-mode choice of CmdHandler *)

\* chat c has a session of CmdHandler at the stage that asks for the update mode
AsksUpdateMode(c) ==
    /\ impl = "CmdHandler" /\ ~halted
    /\ c \in DOMAIN convs
    /\ convs[c].Cmd = "/update_topics" /\ convs[c].Stage = "StageUpdateTopicsChoice"

\* handling "replace all" left w: no working topics, at the choose-category stage
ReplacesAll(w) ==
    /\ ~w.halted /\ w.live
    /\ w.cs.Topics = EmptyMap
    /\ w.cs.Stage = "StageUpdateTopicsCategory"

\* handling "replace some" left w: the working topics of cs, at the stage that selects
\* among the existing categories, which the next message of the chat enters
ReplacesSome(cs, w) ==
    /\ ~w.halted /\ w.live
    /\ w.cs.Topics = cs.Topics
    /\ w.cs.Stage = "StageUpdateTopicsSelectManyExisting"

\* C20: in the update flow of CmdHandler, at the stage that asks for the update mode,
\* "replace all" (1) clears the working topics and moves the session to choose-category;
\* "replace some" (2) moves the session to select-existing-categories with the working
\* topics intact, so that the next message of the chat is handled as a selection among
\* the existing categories
C20_UpdateModeChoice ==
    AsksUpdateMode(1) =>
        /\ ReplacesAll(AfterText(1, <<"1">>))
        /\ ReplacesSome(convs[1], AfterText(1, <<"2">>))

----------------------------------------------------------------------------
(* The "back" word at the info-type stages of CmdHandler *)

InfoStages == {"StageStartInfoTypes", "StageUpdateTopicsInfoTypes"}

\* the choose-category stage of the flow that the info-type stage belongs to
CategoryStageOf(stage) ==
    IF stage = "StageStartInfoTypes" THEN "StageStartCategory" ELSE "StageUpdateTopicsCategory"

\* chat c has a session of CmdHandler that is choosing info types
ChoosesInfos(c) ==
    /\ impl = "CmdHandler" /\ ~halted
    /\ c \in DOMAIN convs
    /\ convs[c].Stage \in InfoStages

\* handling "back" left w: the session (cs before) is at the choose-category stage with
\* the partial selection gone, and the working topics, the step counter and the store
\* are as before
WentBack(cs, w) ==
    /\ ~w.halted /\ w.live
    /\ w.cs.Stage = CategoryStageOf(cs.Stage)
    /\ w.cs.SelectedInfos = <<>>
    /\ w.cs.Topics = cs.Topics
    /\ w.cs.Step = cs.Step
    /\ w.store = store

\* C21: at the choose-info-types stage of the first-time and update flows of CmdHandler,
\* a "back" message returns the session to the choose-category stage and discards the
\* partial selection of the current category: no category is added to or changed in the
\* working topics, the step counter is unchanged and nothing is written to the store
C21_BackDiscardsSelection ==
    ChoosesInfos(1) => WentBack(convs[1], AfterText(1, <<Back>>))

----------------------------------------------------------------------------
(* The delete flow of CmdHandler *)

\* chat c has a session of the delete flow of CmdHandler at the given stage
Deletes(c, stage) ==
    /\ impl = "CmdHandler" /\ ~halted
    /\ c \in DOMAIN convs
    /\ convs[c].Cmd = "/delete_topics" /\ convs[c].Stage = stage

\* handling "delete all" left w: the record of chat c is stored with no topics
DeletedAll(c, w) ==
    /\ ~w.halted
    /\ c \in DOMAIN w.store /\ w.store[c].Topics = EmptyMap

\* handling "delete some" left w: the store as before, the session at the selection stage
SelectsToDelete(w) ==
    /\ ~w.halted /\ w.live
    /\ w.store = store
    /\ w.cs.Stage = "StageDeleteTopicsSelect"

\* handling "done" at the selection stage of session cs left w: the record of chat c has
\* the topics of cs without the selected categories
DeletedSelected(c, cs, w) ==
    /\ ~w.halted
    /\ c \in DOMAIN w.store
    /\ w.store[c].Topics = [k \in DOMAIN cs.Topics \ Range(cs.SelectedCats) |-> cs.Topics[k]]

\* C22: in the delete flow of CmdHandler, "delete all" (1) persists an empty topics map;
\* "delete some" (2) writes nothing to the store by itself and moves the session to the
\* selection stage, where the selection has no duplicates and "done" persists the
\* original topics minus exactly the selected categories, each unselected category with
\* its info types
C22_DeleteFlow ==
    /\ Deletes(1, "StageDeleteTopicsChoice") =>
          /\ DeletedAll(1, AfterText(1, <<"1">>))
          /\ SelectsToDelete(AfterText(1, <<"2">>))
    /\ Deletes(1, "StageDeleteTopicsSelect") =>
          /\ NoDup(convs[1].SelectedCats)
          /\ convs[1].SelectedCats # <<>> =>
                DeletedSelected(1, convs[1], AfterText(1, <<Done>>))

----------------------------------------------------------------------------
(* What the save of a topic flow changes in the record *)

\* session cs belongs to an update, add or delete flow
EditsTopics(cs) ==
    \/ cs.Cmd \in {"/update_topics", "/add_topics", "/delete_topics"}
    \/ cs.UpdateTopics \/ cs.DeleteTopics

\* the trace of the step has a save of the record of user u
Saved(trace, u) == \E i \in 1..Len(trace) : trace[i].op = "save" /\ trace[i].user = u

\* C23: the save that completes an update, add or delete flow of a user who has a record
\* changes only the topics map of the record: tariff, active flag, the on-demand and
\* last-24h counters and the three timestamps are the same right before and right after
C23_SaveChangesOnlyTopics ==
    [][ \A c \in Chats :
          (/\ c \in DOMAIN convs /\ EditsTopics(convs[c])
           /\ c \in DOMAIN store
           /\ ev'.kind = "message" /\ ev'.chat = c /\ ev'.route = "continue"
           /\ Saved(ev'.trace, c))
              => (c \in DOMAIN store'
                  /\ store'[c] = [store[c] EXCEPT !.Topics = store'[c].Topics]) ]_vars

----------------------------------------------------------------------------
(* The quota of the on-demand flows and the generation of content *)

\* the record of chat c after the step counts the request made from session cs at the
\* time now: the counter of the flow is one more than the day's count, the timestamp is now
RequestCounted(cs, rec, now) ==
    LET s == cs.Settings[1] IN
    IF cs.Stage = "stageGetNewsCategory"
    THEN /\ rec.GetNewsNowCount = CountToday(s.GetNewsNowCount, now, s.LastGetNewsNow) + 1
         /\ rec.LastGetNewsNow = now
    ELSE /\ rec.GetLast24hCount = CountToday(s.GetLast24hCount, now, s.LastGetLast24h) + 1
         /\ rec.LastGetLast24h = now

\* the step has a fault that changed its outcome
Faulted(trace) == \E i \in 1..Len(trace) : trace[i].op = "fault"

\* C24: in the on-demand flow and in the last-24h flow, when a valid category passes the
\* quota check, the incremented counter and the new timestamp are saved before the
\* generation of content is requested: every step that requests the generation, with
\* the store working, leaves the request counted in the stored record, also when the
\* generation fails and no content is delivered
C24_CountedBeforeGeneration ==
    [][ \A c \in Chats :
          (/\ c \in DOMAIN convs
           /\ convs[c].Stage \in {"stageGetNewsCategory", "stageGetLast24hCategory"}
           /\ ev'.kind = "message" /\ ev'.chat = c /\ ev'.route = "continue"
           /\ gen' # <<>>
           /\ (~Told(sent', c, {"news"}) \/ ~Faulted(ev'.trace)))
              => (c \in DOMAIN store' /\ RequestCounted(convs[c], store'[c], clock)) ]_vars

----------------------------------------------------------------------------
(* The scheduler and the on-demand flow for users of any stored tariff name, while the
   generation, the store or the transport may fail *)

TickStores ==
    { (1 :> Record(1, "gold", TRUE, ("Tech" :> <<"News">>), 0, 0, 0))
          @@ (2 :> Record(2, "base", TRUE, ("Tech" :> <<"News">>), 0, 0, 0)),
      (1 :> Record(1, "base", TRUE, ("Tech" :> <<"News">>), 0, 0, 0))
          @@ (2 :> Record(2, "plus", TRUE, ("Science" :> <<"Facts">>), 0, 0, 0)) }

TickTexts == WordTexts({"/get_news_now", "1"})

TickTimeline == <<At(1, 8, 1), At(1, 9, 30)>>

\* the call that fails during the pass for one user; "send": the transport
ServeFaults == {"none", "gen", "save", "send"}

InitTicks == InitWith({"App"}, {"file", "postgres"}, TickStores, At(1, 7, 59))

TicksMessage ==
    \E text \in TickTexts, perm \in PermsOf(KeysOf(1)) :
        Message(1, text, perm, FALSE, "none") /\ hist'[1].flows <= MaxFlows

TicksClock == Advance(TickTimeline)

TicksTick == \E rev \in BOOLEAN : Tick(rev, "none")

\* the state that the pass for user u leaves, w1 after the pass; the event keeps the
\* name of the call that failed
TickServed(u, w1, fault) ==
    /\ store' = w1.store
    /\ sent' = w1.sent
    /\ gen' = w1.gen
    /\ halted' = w1.halted
    /\ ev' = [kind |-> "serve", chat |-> u.UserID, word |-> fault, route |-> "", trace |-> w1.trace]
    /\ sched' = IF Len(sched.users) = 1 THEN IdleSched ELSE [sched EXCEPT !.users = Tail(@)]
    /\ UNCHANGED <<convs, impl, repoKind, clock, hist>>

\* App.scheduleMessages: the tick serves the next user it read; the result of
\* a.sendMessage is not looked at, so a transport fault leaves the pass as it is
TicksServe ==
    /\ ~halted
    /\ sched.pc = "serve"
    /\ \E perm \in PermsOf(DOMAIN Head(sched.users).Topics), fault \in ServeFaults :
          TickServed(Head(sched.users),
                     ServeUser(Work(0), Head(sched.users), sched.now, EnvAt(perm, fault)),
                     fault)

NextTicks == TicksMessage \/ TicksClock \/ TicksTick \/ TicksServe

SpecTicks == InitTicks /\ [][NextTicks]_vars

\* by the base tariff the user u is due a scheduled message at the time now
DueByBase(u, now) ==
    /\ inTimeRange(now, Tariffs["base"].Schedule.TimeRange)
    /\ now - u.LastScheduledSent >= Tariffs["base"].Schedule.FrequencyMinutes * 60

\* the step handles a numeric selection of chat c in its on-demand session, which holds
\* a record with a tariff name that the table does not have
SelectsUnderUnknownTariff(c) ==
    /\ c \in DOMAIN convs
    /\ convs[c].Stage = "stageGetNewsCategory"
    /\ ~HasTariff(convs[c].Settings[1].Tariff)
    /\ ev'.kind = "message" /\ ev'.chat = c /\ ev'.route = "continue" /\ ev'.word = ""

\* C25: for a user whose stored tariff name is not a key of the tariff table, the tick
\* and the on-demand flow use the tariff "base": with no fault, the pass of the tick for
\* the user with topics sends a generated digest exactly when the base window and the
\* base frequency allow it, the on-demand selection delivers the content, and the
\* process keeps running
C25_UnknownTariffIsBase ==
    [][ /\ \A i \in 1..Len(sched.users) :
              LET u == sched.users[i] IN
              (Serves(u) /\ ~HasTariff(u.Tariff) /\ DOMAIN u.Topics # {} /\ ev'.word = "none")
                  => /\ ~halted'
                     /\ IF DueByBase(u, sched.now)
                        THEN gen' # <<>> /\ Told(sent', u.UserID, {"digest"})
                        ELSE gen' = <<>> /\ sent' = <<>>
        /\ \A c \in Chats :
              SelectsUnderUnknownTariff(c)
                  => (~halted' /\ gen' # <<>> /\ Told(sent', c, {"news"})) ]_vars

\* the messages with one of the keys that the step sent to chat c
SentTo(s, c, keys) == {i \in 1..Len(s) : s[i][1] = c /\ s[i][2] \in keys}

\* C26: in a tick, once the digest of a user is generated the last-scheduled-send saved
\* for the user is the time of the tick whether or not the transport delivered the
\* digest; the digest is sent at most once in the pass; and after the pass for one user,
\* whatever failed in it, the tick goes on with the users that remain
C26_TickGoesOn ==
    [][ \A i \in 1..Len(sched.users) :
          LET u == sched.users[i] IN
          Serves(u) =>
              /\ (gen' # <<>> /\ ev'.word \in {"none", "send"})
                    => (/\ u.UserID \in DOMAIN store'
                        /\ store'[u.UserID].LastScheduledSent = sched.now)
              /\ Cardinality(SentTo(sent', u.UserID, {"digest"})) <= 1
              /\ ~halted'
              /\ Len(sched.users) > 1
                    => (sched'.pc = "serve" /\ sched'.users = Tail(sched.users)) ]_vars

----------------------------------------------------------------------------
(* The reminder of the scheduler for a user without topics *)

\* the tick read u without topics, inside the window and past the interval of its tariff
DueWithoutTopics(u) ==
    /\ DOMAIN u.Topics = {}
    /\ inTimeRange(sched.now, TariffOrBase(u.Tariff).Schedule.TimeRange)
    /\ sched.now - u.LastScheduledSent >= TariffOrBase(u.Tariff).Schedule.FrequencyMinutes * 60

\* C27: the pass of a tick for an active user who is inside the send window, past the
\* frequency interval and without topics sends the user exactly one reminder, requests
\* no content and saves the time of the tick as last-scheduled-send; and the reminder
\* comes no sooner than frequencyMinutes after the scheduled send before it
C27_ReminderOncePerInterval ==
    [][ \A i \in 1..Len(sched.users) :
          LET u == sched.users[i] IN
          (Serves(u) /\ u.Active /\ DueWithoutTopics(u)) =>
              /\ sent' = <<<<u.UserID, "reminder">>>>
              /\ gen' = <<>>
              /\ u.UserID \in DOMAIN store' /\ store'[u.UserID].LastScheduledSent = sched.now
              /\ hist[0][u.UserID] # 0 =>
                    sched.now - hist[0][u.UserID]
                        >= TariffOrBase(u.Tariff).Schedule.FrequencyMinutes * 60 ]_vars

\* the tick of 13:01 has reminded user 1, who was reminded by the tick of 12:00 and not
\* by the tick of 12:01
C27_Witness ==
    /\ ev.kind = "serve" /\ ev.chat = 1
    /\ sent = <<<<1, "reminder">>>> /\ gen = <<>>
    /\ 1 \in DOMAIN store /\ store[1].Topics = EmptyMap
    /\ store[1].LastScheduledSent = At(1, 13, 1)
    /\ hist[0][1] = At(1, 13, 1)

\* the tick of 12:01 has passed user 1 by, who was reminded at 12:00
C27_WitnessSkip ==
    /\ ev.kind = "serve" /\ ev.chat = 1
    /\ sent = <<>>
    /\ clock = At(1, 12, 1) /\ hist[0][0] = At(1, 12, 1)
    /\ 1 \in DOMAIN store /\ store[1].Topics = EmptyMap
    /\ store[1].LastScheduledSent = At(1, 12, 0)

----------------------------------------------------------------------------
(* inTimeRange, applied to the instants around the bounds of the windows *)

\* the parts of a window as strings.Split(rng, "-") gives them; "25:61" is no time
WindowParts == {"08:00", "23:00", "22:00", "06:00", "25:61"}

\* windows of one, two and three parts
WindowRanges ==
    {<<a>> : a \in WindowParts}
        \cup {<<a, b>> : a, b \in WindowParts}
        \cup {<<a, b, "06:00">> : a, b \in {"08:00", "22:00"}}

\* the bounds of the windows, a second before and after each, midnight and noon
WindowTimes ==
    {At(1, h, 0) + d : h \in {6, 8, 22, 23}, d \in {-1, 0, 1}} \cup {At(1, 0, 0), At(1, 12, 0)}

InitWindow ==
    /\ impl = "App"
    /\ repoKind = "file"
    /\ store = [c \in {} |-> ZeroSettings]
    /\ convs = [c \in {} |-> ZeroConv]
    /\ clock \in WindowTimes
    /\ sched = IdleSched
    /\ sent = <<>>
    /\ gen = <<>>
    /\ ev = NoEvent
    /\ hist = [c \in Chats |-> Hist0]
    /\ halted = FALSE

\* one call inTimeRange(now, rng) at the time of the clock: the event keeps the window
\* and the result
CallInTimeRange(rng, result) ==
    /\ ev' = [kind |-> "inTimeRange", chat |-> 0, word |-> IF result THEN "true" ELSE "false",
              route |-> "", trace |-> rng]
    /\ UNCHANGED <<store, convs, impl, repoKind, clock, sched, sent, gen, hist, halted>>

NextWindow == \E rng \in WindowRanges : CallInTimeRange(rng, inTimeRange(clock, rng))

SpecWindow == InitWindow /\ [][NextWindow]_vars

\* the window has two parts and both are times
TwoTimes(rng) == Len(rng) = 2 /\ timeParse(rng[1]).ok /\ timeParse(rng[2]).ok

\* the second of the day that the part names
SecondOfDay(part) == timeParse(part).hour * 3600 + timeParse(part).minute * 60

\* what the window says of the second t of the day: between start and end with both
\* bounds, or, when the end is earlier than the start, from the start on or up to the end
InWindow(t, start, end) ==
    IF end >= start THEN start <= t /\ t <= end ELSE t >= start \/ t <= end

\* C28: inTimeRange(now, "HH:MM-HH:MM") is true exactly when the time of now lies between
\* start and end, both bounds included, when the end is not earlier than the start; when
\* the end is earlier than the start the window wraps past midnight and the result is
\* true exactly when now is at or after the start or at or before the end; for a string
\* that is not two parseable HH:MM parts the result is true for every now
C28_WindowWithBounds ==
    ev.kind = "inTimeRange" =>
        IF TwoTimes(ev.trace)
        THEN (ev.word = "true")
                <=> InWindow(clock % DaySeconds, SecondOfDay(ev.trace[1]), SecondOfDay(ev.trace[2]))
        ELSE ev.word = "true"

----------------------------------------------------------------------------
(* parseSelection, applied to texts of up to three tokens *)

\* the tokens of a text: numbers of the options, a number beyond them, zero and a word
SelectTokens == {"0", "1", "2", "3", "x"}

SelectTexts == UNION {[1..n -> SelectTokens] : n \in 0..3}

SelectOptions == {<<>>, <<"Tech">>, <<"Tech", "Science">>}

SelectLimits == 0..3

\* one call parseSelection(text, opts, limit): the event keeps the arguments and the result
CallParseSelection(text, opts, limit, out) ==
    /\ ~halted
    /\ ev' = [kind |-> "parseSelection", chat |-> 0, word |-> "", route |-> "",
              trace |-> <<[text |-> text, opts |-> opts, limit |-> limit, out |-> out]>>]
    /\ UNCHANGED <<store, convs, impl, repoKind, clock, sched, sent, gen, hist, halted>>

InitSelect == InitWith({"App"}, {"file"}, {[c \in {} |-> ZeroSettings]}, At(0, 12, 0))

NextSelect ==
    \E text \in SelectTexts, opts \in SelectOptions, limit \in SelectLimits :
        CallParseSelection(text, opts, limit, parseSelection(text, opts, limit))

SpecSelect == InitSelect /\ [][NextSelect]_vars

\* the numbers of the options that the tokens of the text name, in the order of their
\* first occurrence
RECURSIVE FirstIndices(_, _, _)
FirstIndices(text, n, found) ==
    IF text = <<>> THEN found
    ELSE LET t == Head(text)
             names == t \in DOMAIN AtoiTable /\ AtoiTable[t] \in 1..n /\ AtoiTable[t] \notin Range(found)
         IN FirstIndices(Tail(text), n, IF names THEN Append(found, AtoiTable[t]) ELSE found)

\* out is the start of the options that the text names, one for each index
StartOfNamed(out, text, opts) ==
    LET idx == FirstIndices(text, Len(opts), <<>>) IN
    /\ Len(out) <= Len(idx)
    /\ \A i \in 1..Len(out) : out[i] = opts[idx[i]]

\* C29: parseSelection(text, opts, limit) never fails; for every text, every opts and
\* every limit >= 0 its result has only the values opts[i-1] of the tokens i of the text
\* that are integers in 1..len(opts), in the order of their first occurrence and with
\* no index used twice, and has at most limit elements; other tokens are skipped
C29_SelectionWithinLimit ==
    (ev.kind = "parseSelection") =>
        LET r == ev.trace[1] IN
        /\ StartOfNamed(r.out, r.text, r.opts)
        /\ Len(r.out) <= r.limit

----------------------------------------------------------------------------
(* The stage of App that selects the categories to replace *)

\* chat c has a session of App at the stage that selects among the existing categories
SelectsExisting(c) ==
    /\ impl = "App"
    /\ c \in DOMAIN convs
    /\ convs[c].Stage = "stageSelectManyExisting"

\* the selection of session cs: no category twice, each one a category the user has
SelectionOfExisting(cs) ==
    /\ NoDup(cs.SelectedCats)
    /\ Range(cs.SelectedCats) \subseteq Range(cs.AvailableCats)
    /\ Range(cs.SelectedCats) \subseteq DOMAIN cs.Topics

\* the step handles "done" of chat c at that stage
DoneSelecting(c) ==
    /\ SelectsExisting(c)
    /\ ev'.kind = "message" /\ ev'.chat = c /\ ev'.route = "continue" /\ ev'.word = Done

\* C30: at the select-existing-categories stage of App the selection is always a list
\* without duplicates of categories that the user has; "done" with an empty selection
\* ends the flow with "no changes", nothing persisted and the session removed; "done"
\* with k >= 1 selected categories sets the working category limit to k, the step
\* counter to 0 and the old category to replace to the first selected one
C30_SelectExisting ==
    [][ \A c \in Chats :
          /\ SelectsExisting(c)' => SelectionOfExisting(convs'[c])
          /\ (DoneSelecting(c) /\ convs[c].SelectedCats = <<>>)
                => (/\ c \notin DOMAIN convs'
                    /\ store' = store
                    /\ sent' = <<<<c, "no_changes">>>>)
          /\ (DoneSelecting(c) /\ convs[c].SelectedCats # <<>>)
                => (/\ c \in DOMAIN convs'
                    /\ convs'[c].CategoryLimit = Len(convs[c].SelectedCats)
                    /\ convs'[c].Step = 0
                    /\ convs'[c].OldCat = convs[c].SelectedCats[1]
                    /\ store' = store) ]_vars

\* ---------------------------------------------------------------------------------
\* "done" at the choose-info-types stage of the add flow of CmdHandler
\* ---------------------------------------------------------------------------------

\* chat c has a session of CmdHandler that is choosing info types in the add flow
AddsInfos(c) ==
    /\ impl = "CmdHandler" /\ ~halted
    /\ c \in DOMAIN convs
    /\ convs[c].Stage = "StageAddTopicsInfoTypes"

\* the info types that the working topics of cs hold for its current category
InfosOfCurrent(cs) ==
    IF cs.CurrentCat \in DOMAIN cs.Topics THEN cs.Topics[cs.CurrentCat] ELSE <<>>

\* handling "done" left w: the current category of cs holds what it held merged with
\* the selection of cs, and the step counter is one more than in cs
AcceptedSelection(cs, w) ==
    /\ ~w.halted
    /\ cs.CurrentCat \in DOMAIN w.cs.Topics
    /\ w.cs.Topics[cs.CurrentCat] = Merge(InfosOfCurrent(cs), cs.SelectedInfos)
    /\ w.cs.Step = cs.Step + 1

\* C31: at the choose-info-types stage of the add flow of CmdHandler, "done" stores the
\* current category in the working topics with the info types accumulated so far, merged
\* without duplicates into those it already had, and advances the step counter by one
C31_DoneAcceptsSelection ==
    AddsInfos(1) => AcceptedSelection(convs[1], AfterText(1, <<Done>>))

\* ---------------------------------------------------------------------------------
\* The add flow of CmdHandler for users who may add more than one category
\* ---------------------------------------------------------------------------------

\* a user without topics (after "delete all") on each tariff, and a user with one category
AddStores ==
    { (1 :> Record(1, "base", TRUE, EmptyMap, 0, 0, 0)),
      (1 :> Record(1, "plus", TRUE, EmptyMap, 0, 0, 0)),
      (1 :> Record(1, "premium", TRUE, EmptyMap, 0, 0, 0)),
      (1 :> Record(1, "plus", TRUE, ("Tech" :> <<"News">>), 0, 0, 0)) }

AddTexts == WordTexts({"/add_topics", Done, Back, Cancel}) \cup DigitTexts

InitAdd == InitWith({"CmdHandler"}, {"file"}, AddStores, At(0, 12, 0))

NextAdd ==
    \E text \in AddTexts, perm \in PermsOf(KeysOf(1)) :
        Message(1, text, perm, FALSE, "none") /\ hist'[1].flows <= MaxFlows

SpecAdd == InitAdd /\ [][NextAdd]_vars

\* this step handles a message of chat c at the choose-info-types stage of the add flow
\* and completes a category with at least one info type
CompletesCategory(c) ==
    /\ AddsInfos(c)
    /\ ev'.kind = "message" /\ ev'.chat = c
    /\ \E i \in DOMAIN ev'.trace : ev'.trace[i].op = "commit" /\ ev'.trace[i].infos # <<>>

\* chat c has a session of the add flow of CmdHandler at the given stage
AddFlowAt(c, stage) ==
    /\ impl = "CmdHandler" /\ ~halted
    /\ c \in DOMAIN convs
    /\ convs[c].Cmd \in {"/add_topic", "/add_topics"}
    /\ convs[c].Stage = stage

\* handling "no" at the add-more stage left w: the working topics of cs are the stored
\* topics of chat c and the session is gone
PersistedAndEnded(c, cs, w) ==
    /\ ~w.halted /\ ~w.live
    /\ c \in DOMAIN w.store /\ w.store[c].Topics = cs.Topics

\* handling a message left w: the session of chat c has moved on, or has ended with a save
Processed(c, w) ==
    /\ ~w.halted
    /\ \/ w.live /\ w.cs # convs[c]
       \/ ~w.live /\ w.store # store

\* C32: in the add flow of CmdHandler a category completed with at least one info type,
\* with the category limit not reached, takes the session to the add-more stage; there
\* "no" (2) persists the working topics and ends the session and "yes" (1) takes the
\* session to select-existing-categories, where some message of the chat is processed
C32_AddMore ==
    [][ /\ (CompletesCategory(1) /\ 1 \in DOMAIN convs' /\ convs'[1].Step < convs'[1].CategoryLimit)
            => convs'[1].Stage = "StageAddTopicsAddMore"
        /\ AddFlowAt(1, "StageAddTopicsAddMore")
            => /\ PersistedAndEnded(1, convs[1], AfterText(1, <<"2">>))
               /\ AfterText(1, <<"1">>).cs.Stage = "StageUpdateTopicsSelectManyExisting"
        /\ AddFlowAt(1, "StageUpdateTopicsSelectManyExisting")
            => \E text \in WordTexts(Digits \cup {Done}) : Processed(1, AfterText(1, text)) ]_vars

\* ---------------------------------------------------------------------------------
\* The admin tariff flow next to the sessions of a user
\* ---------------------------------------------------------------------------------

AdminStores ==
    { (1 :> Record(1, "premium", TRUE, ("Tech" :> <<"News">>), 0, 0, 0)),
      (1 :> Record(1, "base", TRUE, ("Tech" :> <<"News">>), 0, 0, 0))
          @@ (2 :> Record(2, "plus", TRUE, ("Science" :> <<"Facts">>), 0, 0, 0)),
      (2 :> Record(2, "plus", TRUE, ("Science" :> <<"Facts">>), 0, 0, 0)) }

\* what the privileged chat types: the command, names with and without "@" and in
\* another case, a name that nobody has, tariff names and a word that is not one
SettTexts == WordTexts({"/sett", "ALICE", "@alice", "bob", "base", "plus", "ultimate", "gold"})

\* what the other chat types: the admin command and the requests for news
RequestTexts == WordTexts({"/sett", "/get_news_now", "/get_last_24h_news", "1", "2"})

InitAdmin == InitWith({"App", "CmdHandler"}, {"file"}, AdminStores, At(0, 12, 0))

SettMessage ==
    \E text \in SettTexts, rev \in BOOLEAN :
        Message(2, text, IdPerm, rev, "none") /\ hist'[2].flows <= MaxFlows

RequestMessage ==
    \E text \in RequestTexts, perm \in PermsOf(KeysOf(1)) :
        Message(1, text, perm, FALSE, "none") /\ hist'[1].flows <= MaxFlows

NextAdmin == SettMessage \/ RequestMessage

SpecAdmin == InitAdmin /\ [][NextAdmin]_vars

\* the stages of the admin tariff flow
SettStages == {"stageSetTariffUser", "stageSetTariffChoice"}

\* this step dispatches the admin command of chat c as a command
SendsSett(c) == ev'.kind = "message" /\ ev'.chat = c /\ ev'.word = "/sett" /\ ev'.route = "command"

\* C33: only a chat whose username is the privileged username starts the admin tariff
\* flow: the admin command of any other sender creates no session, sends no message and
\* changes no stored record, and every session of the admin flow belongs to the
\* privileged chat
C33_OnlyAdminStartsTariffFlow ==
    [][ \A c \in Chats :
          /\ (SendsSett(c) /\ Username[c] # adminUserName)
                => (convs' = convs /\ sent' = <<>> /\ store' = store)
          /\ (c \in DOMAIN convs' /\ convs'[c].Stage \in SettStages)
                => Username[c] = adminUserName ]_vars

\* a chat that is not privileged has sent the admin command while the privileged chat
\* has its admin session open
C33_Witness ==
    /\ ev.kind = "message" /\ ev.chat = 1 /\ ev.word = "/sett" /\ ev.route = "command"
    /\ 1 \in DOMAIN store
    /\ 2 \in DOMAIN convs /\ convs[2].Stage \in SettStages

\* the privileged chat has started the admin flow
C33_WitnessAdmin ==
    /\ ev.kind = "message" /\ ev.chat = 2 /\ ev.word = "/sett" /\ ev.route = "command"
    /\ 2 \in DOMAIN convs /\ convs[2].Stage = "stageSetTariffUser"
    /\ sent = <<<<2, "enter_username">>>>

\* the tariff names that the choice stage of the admin flow accepts
TariffChoices == {"base", "plus", "premium", "ultimate"}

\* this step handles a word of the privileged chat c at the given stage of the admin flow
SettStep(c, stage) ==
    /\ c \in DOMAIN convs /\ convs[c].Stage = stage
    /\ ev'.kind = "message" /\ ev'.chat = c /\ ev'.route = "continue"

\* the stored users whose name is the name the admin entered, ignoring case
NamedUsers(name) == {u \in DOMAIN store : EqualFoldWord(store[u].UserName, name)}

\* the admin session of chat c has ended with the given answer
SettEnded(c, answer) == c \notin DOMAIN convs' /\ sent' = <<<<c, answer>>>>

\* the name that the admin flow keeps is the entered word without a leading "@"
KeepsEnteredName(c) ==
    (SettStep(c, "stageSetTariffUser") /\ c \in DOMAIN convs' /\ convs'[c].Stage = "stageSetTariffChoice")
        => EqualFoldWord(convs'[c].TargetUser, TrimPrefixAt(ev'.word))

C34_WitnessNoUser ==
    /\ ev.kind = "message" /\ ev.chat = 2 /\ ev.word \in TariffChoices /\ ev.route = "continue"
    /\ sent = <<<<2, "error">>>>
    /\ 2 \notin DOMAIN convs

\* the admin has typed a word that is not a tariff at the choice stage
C34_WitnessReprompt ==
    /\ ev.kind = "message" /\ ev.chat = 2 /\ ev.word = "gold" /\ ev.route = "continue"
    /\ sent = <<<<2, "choose_tariff">>>>
    /\ 2 \in DOMAIN convs /\ convs[2].Stage = "stageSetTariffChoice"

\* chat c has a session that was open when another chat's handler saved the record of
\* user c, and the session's own handlers have not saved it since
OpenAcrossSave(c) ==
    /\ c \in DOMAIN convs /\ c \in DOMAIN store
    /\ hist[c].touched /\ ~hist[c].wrote

\* C35: after the admin flow has saved a new tariff for a user, the user's stored tariff
\* stays that value whatever the user does in a session that was open when the tariff
\* was saved, such as completing an on-demand or last-24h request whose session holds a
\* snapshot of the settings taken before the change
C35_TariffSurvivesOpenSession ==
    [][ (OpenAcrossSave(1) /\ ev'.kind = "message" /\ ev'.chat = 1 /\ ev'.route = "continue")
            => (1 \in DOMAIN store' /\ store'[1].Tariff = store[1].Tariff) ]_vars

\* ---------------------------------------------------------------------------------
\* /start of a stored user while repo.Get fails
\* ---------------------------------------------------------------------------------

StartTexts == WordTexts({"/start", Continue, Done, "1", "2"})

StartFaults == {"none", "get"}

InitStart == InitWith({"App", "CmdHandler"}, {"file", "postgres"}, FaultStores, At(0, 12, 0))

NextStart ==
    \E text \in StartTexts, perm \in PermsOf(KeysOf(1)), fault \in StartFaults :
        FaultyMessage(text, perm, fault)

SpecStart == InitStart /\ [][NextStart]_vars

\* the stages at which a first-time setup session begins
WelcomeStages == {"stageWelcome", "StageStartWelcome"}

\* this step handles /start of chat c, who has a record, and the Get of the handler fails
\* with a storage fault
StartsWhileGetFails(c) ==
    /\ c \in DOMAIN store
    /\ ev'.kind = "message" /\ ev'.chat = c /\ ev'.word = "/start"
    /\ Faulted(ev'.trace)

\* the fields of record old that a fresh default record would overwrite are in record new
KeepsRecord(old, new) ==
    /\ new.Topics = old.Topics /\ new.Tariff = old.Tariff /\ new.Active = old.Active
    /\ new.GetNewsNowCount = old.GetNewsNowCount /\ new.GetLast24hCount = old.GetLast24hCount

\* C36: when the Get of /start fails with a storage fault for a user who has a record, no
\* first-time setup session is created for the chat, and the record (topics, tariff,
\* active flag, counters) is never overwritten by a fresh default record
C36_GetFaultKeepsRecord ==
    [][ \A c \in Chats :
          /\ StartsWhileGetFails(c)
                => ~(c \in DOMAIN convs' /\ convs'[c].Stage \in WelcomeStages)
          /\ (c \in DOMAIN store /\ ev'.kind = "message" /\ ev'.chat = c)
                => (c \in DOMAIN store' /\ KeepsRecord(store[c], store'[c])) ]_vars

\* ---------------------------------------------------------------------------------
\* Commands typed while a session is open
\* ---------------------------------------------------------------------------------

CommandWords == {"/start", "/stop", "/update_topics", "/get_news_now", "/my_topics"}

RouteTexts == WordTexts(CommandWords \cup {Continue, "1", "2"})

InitRoute == InitWith({"App", "CmdHandler"}, {"file"}, CancelStores, At(0, 12, 0))

NextRoute ==
    \E text \in RouteTexts, perm \in PermsOf(KeysOf(1)) :
        Message(1, text, perm, FALSE, "none") /\ hist'[1].flows <= MaxFlows + 1

SpecRoute == InitRoute /\ [][NextRoute]_vars

\* continueConversation of the engine the process is built with
ContinueOf(w, m, e) ==
    IF impl = "App" THEN App_continueConversation(w, m, e) ELSE CmdHandler_continueConversation(w, m, e)

\* handleStartCommand of the engine the process is built with
StartOf(w, m, e) ==
    IF impl = "App" THEN handleStartCommand(w, m, e, "", "stageWelcome")
    ELSE handleStartCommand(w, m, e, "/start", "StageStartWelcome")

\* this step leaves what the working state w of a handler of chat c holds
Leaves(c, w) ==
    /\ store' = w.store /\ sent' = w.sent /\ halted' = w.halted
    /\ convs' = IF w.live THEN Put(convs, c, w.cs) ELSE Del(convs, c)

\* this step handles a message of chat c that is the given command word
Types(c, word) == ev'.kind = "message" /\ ev'.chat = c /\ ev'.word = word

\* C37: while a chat has a session, each of its messages other than the exact text
\* /start, command texts included, is handled by the session and does not run the
\* command; /start is always handled as the start command, and for a sender with a
\* stored record it leaves the session of the chat as it is
C37_SessionTakesCommands ==
    [][ \A c \in Chats :
          /\ \A word \in CommandWords \ {"/start"} :
                (c \in DOMAIN convs /\ Types(c, word))
                    => /\ \E perm \in PermsOf(KeysOf(c)) :
                            Leaves(c, ContinueOf(Work(c), [Chat |-> c, Text |-> <<word>>],
                                                 EnvAt(perm, "none")))
                       /\ word = "/stop"
                            => /\ <<c, "stopped">> \notin Range(sent')
                               /\ c \in DOMAIN store
                                    => (c \in DOMAIN store' /\ store'[c].Active = store[c].Active)
          /\ Types(c, "/start")
                => Leaves(c, StartOf(Work(c), [Chat |-> c, Text |-> <<"/start">>], EnvAt(IdPerm, "none")))
          /\ (Types(c, "/start") /\ c \in DOMAIN store /\ c \in DOMAIN convs)
                => (c \in DOMAIN convs' /\ convs'[c] = convs[c]) ]_vars

\* /stop has been typed into an open session of a stored, active user and was taken as
\* input of the session
C37_Witness ==
    /\ ev.kind = "message" /\ ev.chat = 1 /\ ev.word = "/stop" /\ ev.route = "continue"
    /\ 1 \in DOMAIN store /\ store[1].Active
    /\ 1 \in DOMAIN convs

\* /start has been typed into an open session of a stored user, and the session is there
C37_WitnessStart ==
    /\ ev.kind = "message" /\ ev.chat = 1 /\ ev.word = "/start" /\ ev.route = "command"
    /\ 1 \in DOMAIN store
    /\ 1 \in DOMAIN convs /\ convs[1].Stage \notin WelcomeStages

\* ---------------------------------------------------------------------------------
\* The two goroutines of App.Run while a content-generation call blocks
\* ---------------------------------------------------------------------------------

StallStores ==
    { (1 :> Record(1, "premium", TRUE, ("Tech" :> <<"News">>), 0, 0, 0))
          @@ (2 :> Record(2, "plus", TRUE, ("Science" :> <<"Facts">>), 0, 0, 0)) }

StallTexts == WordTexts({"/get_news_now", "/my_topics", "1"})

InitStall == InitWith({"App"}, {"file"}, StallStores, At(1, 12, 0))

\* handleUpdates is inside handleMessage for a message of some chat, at the call of the
\* content generation, which has not returned
LoopBlocked == ev.kind = "calling"

\* the event that a step of the scheduler goroutine leaves: the position of the loop of
\* handleUpdates stays what it is
BesideLoop(event) == ev' = IF LoopBlocked THEN ev ELSE event

\* the handling of a message of chat c that makes no content-generation call: w1 after
HandledQuietly(c, text, w1) ==
    /\ ~halted
    /\ w1.gen = <<>>
    /\ Handled(c, text, Work(c), w1)
    /\ UNCHANGED <<impl, repoKind, clock, sched>>
    /\ hist'[c].flows <= MaxFlows

\* handleUpdates hands a message of chat c to handleMessage, which handles it to the end
\* without a content-generation call
StallMessage(c) ==
    /\ ~LoopBlocked
    /\ \E text \in StallTexts, perm \in PermsOf(KeysOf(c)) :
        HandledQuietly(c, text, Engine(Work(c), [Chat |-> c, Text |-> text], EnvAt(perm, "none")))

\* what the handler of chat c has written when it reaches the generation call (wPre: the
\* handler cut off at the call; wAll: the whole handler), with the text kept for the return
Calling(c, text, wPre, wAll) ==
    /\ wAll.gen # <<>>
    /\ store' = wPre.store
    /\ ev' = [kind |-> "calling", chat |-> c, word |-> "", route |-> "continue",
              trace |-> <<Did("call", c, text[1], <<>>, "")>>]
    /\ sent' = <<>>
    /\ gen' = <<>>
    /\ UNCHANGED <<convs, impl, repoKind, clock, sched, hist, halted>>

\* handleUpdates hands a message of chat c to handleMessage, which reaches the call of
\* the content generation; the call blocks
StallCall(c) ==
    /\ ~halted /\ ~LoopBlocked
    /\ \E text \in StallTexts, perm \in PermsOf(KeysOf(c)) :
        Calling(c, text, Engine(Work(c), [Chat |-> c, Text |-> text], EnvAt(perm, "gen")),
                Engine(Work(c), [Chat |-> c, Text |-> text], EnvAt(perm, "none")))

\* the handler's state at its end: wPre is the handler cut off at the call, wAll the whole
\* handler; what it wrote before the call is in the store already
AfterCall(wPre, wAll) == IF wPre.store = wAll.store THEN [wAll EXCEPT !.store = store] ELSE wAll

\* the handling of the message of chat c ends after the call has returned
Returned(c, text, w1) ==
    /\ Handled(c, text, Work(c), w1)
    /\ UNCHANGED <<impl, repoKind, clock, sched>>

\* the content generation returns and handleMessage handles the message to the end
StallReturn ==
    /\ ~halted /\ LoopBlocked
    /\ \E perm \in PermsOf(KeysOf(ev.chat)) :
        Returned(ev.chat, <<ev.trace[1].cat>>,
                 AfterCall(Engine(Work(ev.chat), [Chat |-> ev.chat, Text |-> <<ev.trace[1].cat>>],
                                  EnvAt(perm, "gen")),
                           Engine(Work(ev.chat), [Chat |-> ev.chat, Text |-> <<ev.trace[1].cat>>],
                                  EnvAt(perm, "none"))))

\* scheduleMessages in its own goroutine: the ticker fires
StallTick ==
    /\ ~halted
    /\ sched.pc = "idle"
    /\ \E rev \in BOOLEAN :
        sched' = LET users == UserService_ActiveUsers(store, KeysInOrderOf(store, rev))
                 IN IF users = <<>> THEN IdleSched ELSE [pc |-> "serve", now |-> clock, users |-> users]
    /\ sent' = <<>>
    /\ gen' = <<>>
    /\ BesideLoop([NoEvent EXCEPT !.kind = "tick"])
    /\ UNCHANGED <<store, convs, impl, repoKind, clock, hist, halted>>

\* the state that one pass of the loop over users leaves beside the loop of handleUpdates
StallServed(u, w1) ==
    /\ store' = w1.store
    /\ sent' = w1.sent
    /\ gen' = w1.gen
    /\ halted' = w1.halted
    /\ BesideLoop([kind |-> "serve", chat |-> u.UserID, word |-> "", route |-> "", trace |-> w1.trace])
    /\ sched' = IF Len(sched.users) = 1 THEN IdleSched ELSE [sched EXCEPT !.users = Tail(@)]
    /\ UNCHANGED <<convs, impl, repoKind, clock, hist>>

\* scheduleMessages in its own goroutine: the generation call of the pass for the next
\* user returns and the pass ends
StallServe ==
    /\ ~halted
    /\ sched.pc = "serve"
    /\ \E perm \in PermsOf(KeysOf(Head(sched.users).UserID)) :
        StallServed(Head(sched.users),
                    ServeUser(Work(0), Head(sched.users), sched.now, EnvAt(perm, "none")))

NextStall ==
    \/ \E c \in Chats : StallMessage(c)
    \/ \E c \in Chats : StallCall(c)
    \/ StallReturn
    \/ StallTick
    \/ StallServe

SpecStall == InitStall /\ [][NextStall]_vars

\* C38: a content-generation call that blocks while handleUpdates serves one chat delays
\* only that chat: messages of the other chats are still handled and the scheduler still
\* ticks and serves; and a generation call that blocks inside a tick does not delay the
\* handling of messages
C38_StallDelaysOneChat ==
    /\ \A c \in Chats :
          (LoopBlocked /\ ev.chat = c /\ ~halted)
              => /\ \A d \in Chats \ {c} : ENABLED StallMessage(d)
                 /\ ENABLED (StallTick \/ StallServe)
    /\ (sched.pc = "serve" /\ ~LoopBlocked /\ ~halted)
          => \A c \in Chats : ENABLED StallMessage(c)

\* ---------------------------------------------------------------------------------
\* App.Run: the shutdown signal and the two loops
\* ---------------------------------------------------------------------------------

StopStores == { (1 :> Record(1, "premium", TRUE, ("Tech" :> <<"News">>), 0, 0, 0)) }

StopTexts == WordTexts({"/my_topics", "/stop", "/start"})

\* the updates that one GetUpdates returns: up to two messages of chat 1
StopBatches == {<<>>} \cup {<<t>> : t \in StopTexts} \cup {<<t, u>> : t, u \in StopTexts}

\* pc, now, users: scheduleMessages; loop, batch: handleUpdates, at the top of its loop,
\* inside GetUpdates, asleep after a failed poll, handing out the updates it got, or
\* returned; ctx: the context of Run; run: Run itself
RunState0 ==
    [pc |-> "idle", now |-> 0, users |-> <<>>, loop |-> "top", batch |-> <<>>,
     ctx |-> "live", run |-> "waiting"]

InitStop ==
    /\ impl = "App"
    /\ repoKind = "file"
    /\ store \in StopStores
    /\ convs = [c \in {} |-> ZeroConv]
    /\ clock = At(1, 12, 0)
    /\ sched = RunState0
    /\ sent = <<>>
    /\ gen = <<>>
    /\ ev = NoEvent
    /\ hist = [c \in Chats |-> Hist0]
    /\ halted = FALSE

\* a step of Run or of a loop that touches neither the store nor a session
Moves(kind, next) ==
    /\ sched' = next
    /\ ev' = [NoEvent EXCEPT !.kind = kind]
    /\ sent' = <<>>
    /\ gen' = <<>>
    /\ UNCHANGED <<store, convs, impl, repoKind, clock, hist, halted>>

\* signal.NotifyContext: the interrupt arrives and the context is cancelled
StopSignal == sched.ctx = "live" /\ Moves("signal", [sched EXCEPT !.ctx = "done"])

\* handleUpdates at the top of its loop: it returns when ctx.Err() is set, else it polls
StopTop ==
    /\ sched.loop = "top"
    /\ Moves("top", [sched EXCEPT !.loop = IF sched.ctx = "done" THEN "exited" ELSE "polling"])

\* GetUpdates returns: with updates, with an error that is the cancellation (only when
\* the context is cancelled), or with another error, after which the loop sleeps
StopPolled ==
    /\ sched.loop = "polling"
    /\ \/ \E b \in StopBatches :
            Moves("polled", [sched EXCEPT !.loop = IF b = <<>> THEN "top" ELSE "got", !.batch = b])
       \/ sched.ctx = "done" /\ Moves("polled", [sched EXCEPT !.loop = "exited"])
       \/ Moves("polled", [sched EXCEPT !.loop = "sleep"])

\* time.Sleep(time.Second) ends
StopSlept == sched.loop = "sleep" /\ Moves("slept", [sched EXCEPT !.loop = "top"])

\* what a handler leaves when the context it passes on is cancelled: its sends fail
Unsent(w) == IF sched.ctx = "done" THEN [w EXCEPT !.sent = <<>>] ELSE w

\* the message at the head of the updates is handled: w1 after
StopHandled(w1) ==
    /\ Handled(1, Head(sched.batch), Work(1), w1)
    /\ sched' = [sched EXCEPT !.batch = Tail(@), !.loop = IF Len(sched.batch) = 1 THEN "top" ELSE "got"]
    /\ UNCHANGED <<impl, repoKind, clock>>

\* handleUpdates hands the next update it got to handleMessage
StopHandle ==
    /\ ~halted
    /\ sched.loop = "got"
    /\ StopHandled(Unsent(Engine(Work(1), [Chat |-> 1, Text |-> Head(sched.batch)],
                                 EnvAt(IdPerm, IF sched.ctx = "done" THEN "gen" ELSE "none"))))

\* scheduleMessages at its select: the ticker's channel is ready and is chosen
StopTick ==
    /\ ~halted
    /\ sched.pc = "idle"
    /\ LET users == UserService_ActiveUsers(store, KeysInOrderOf(store, FALSE))
       IN Moves("tick", IF users = <<>> THEN sched
                        ELSE [sched EXCEPT !.pc = "serve", !.now = clock, !.users = users])

\* scheduleMessages at its select: ctx.Done() is ready and is chosen
StopSchedExit ==
    /\ sched.pc = "idle" /\ sched.ctx = "done"
    /\ Moves("exit", [sched EXCEPT !.pc = "exited"])

\* the state that one pass of the loop over users leaves
StopServed(u, w1) ==
    /\ store' = w1.store
    /\ sent' = w1.sent
    /\ gen' = w1.gen
    /\ halted' = w1.halted
    /\ ev' = [kind |-> "serve", chat |-> u.UserID, word |-> "", route |-> "", trace |-> w1.trace]
    /\ sched' = IF Len(sched.users) = 1 THEN [sched EXCEPT !.pc = "idle", !.users = <<>>]
                ELSE [sched EXCEPT !.users = Tail(@)]
    /\ UNCHANGED <<convs, impl, repoKind, clock, hist>>

\* scheduleMessages serves the next user of the tick
StopServe ==
    /\ ~halted
    /\ sched.pc = "serve"
    /\ StopServed(Head(sched.users),
                  Unsent(ServeUser(Work(0), Head(sched.users), sched.now,
                                   EnvAt(IdPerm, IF sched.ctx = "done" THEN "gen" ELSE "none"))))

\* Run: <-ctx.Done() has passed and wg.Wait() returns
StopReturn ==
    /\ sched.run = "waiting" /\ sched.ctx = "done"
    /\ sched.loop = "exited" /\ sched.pc = "exited"
    /\ Moves("return", [sched EXCEPT !.run = "returned"])

NextStop ==
    \/ StopSignal
    \/ StopTop
    \/ StopPolled
    \/ StopSlept
    \/ StopHandle
    \/ StopTick
    \/ StopSchedExit
    \/ StopServe
    \/ StopReturn

SpecStop == InitStop /\ [][NextStop]_vars

\* the loops take their steps; at the select of scheduleMessages a ready ctx.Done() is
\* chosen sooner or later
SpecStopFair ==
    /\ SpecStop
    /\ WF_vars(StopTop) /\ WF_vars(StopPolled) /\ WF_vars(StopSlept) /\ WF_vars(StopHandle)
    /\ WF_vars(StopServe) /\ SF_vars(StopSchedExit) /\ WF_vars(StopReturn)

\* this step starts a unit of work: handleUpdates hands out an update, or a tick begins
StartsUnit ==
    \/ sched.loop = "got" /\ sched'.batch # sched.batch
    \/ sched.pc = "idle" /\ ev'.kind = "tick"

\* after the signal both loops exit and then Run returns
ShutsDown == (sched.ctx = "done") ~> (sched.loop = "exited" /\ sched.pc = "exited" /\ sched.run = "returned")

\* Run returns only after both loops have exited
ReturnsLast == [](sched.run = "returned" => (sched.loop = "exited" /\ sched.pc = "exited"))

\* no unit of work starts after the signal
StartsNothingNew == [][sched.ctx = "done" => ~StartsUnit]_vars

\* C39: after the shutdown signal the update loop exits (a poll that fails because of the
\* cancellation is a clean exit, another failure is retried after the sleep), the
\* scheduler loop exits, and Run returns only after both loops have exited; each loop
\* finishes at most its current unit of work (one event, or one tick's user list) and
\* starts no new one after the signal
C39_Shutdown == ShutsDown /\ ReturnsLast /\ StartsNothingNew

----------------------------------------------------------------------------
(* The delivery of a digest text: sendLongMessage and the four places that  *)
(* send a digest. A text is its sequence of runes; the limit of 4096 runes  *)
(* is scaled down to ChunkLimit.                                            *)

\* stands for the 4096 runes of one message of the platform
ChunkLimit == 2

\* the longest digest text delivered
MaxText == 5

Runes == {"a", "b"}

DigestTexts == UNION {[1..n -> Runes] : n \in 0..MaxText}

\* the number of the transport send that fails, 0 when none does
SendFailures == 0..3

\* sendMessage(chatID, text, nil) as the k-th send of a delivery: the text goes to the
\* transport, and the send fails when it is the failing one
sendMessageText(sends, text, failAt) ==
    LET ok == Len(sends) + 1 # failAt
    IN [sends |-> Append(sends, [text |-> text, ok |-> ok]), err |-> ~ok]

\* sendLongMessage: while runes are left, cut the first min(limit, len) runes and send
\* them, returning on the first error
RECURSIVE sendLongMessage(_, _, _)
sendLongMessage(sends, runes, failAt) ==
    IF Len(runes) = 0 THEN [sends |-> sends, err |-> FALSE]
    ELSE LET n == IF ChunkLimit > Len(runes) THEN Len(runes) ELSE ChunkLimit
             r == sendMessageText(sends, SubSeq(runes, 1, n), failAt)
         IN IF r.err THEN r
            ELSE sendLongMessage(r.sends, SubSeq(runes, n + 1, Len(runes)), failAt)

\* the sending of the digest in continueNewsFlow, continueLast24hFlow and saveTopics:
\* a text above the limit goes through sendLongMessage, another one through sendMessage
sendDigestChecked(msg, failAt) ==
    IF Len(msg) > ChunkLimit THEN sendLongMessage(<<>>, msg, failAt).sends
    ELSE sendMessageText(<<>>, msg, failAt).sends

\* the sending of the digest in scheduleMessages: one sendMessage with the whole text
sendDigestScheduled(msg, failAt) == sendMessageText(<<>>, msg, failAt).sends

\* the event of one delivery keeps the path, the text, the failing send and the sends made
DeliveryEvent(path, msg, failAt, sends) ==
    [kind |-> "deliver", chat |-> 1, word |-> "", route |-> path,
     trace |-> <<[text |-> msg, failAt |-> failAt, sends |-> sends]>>]

\* the on-demand digest of continueNewsFlow
DeliverNews ==
    /\ ~halted
    /\ \E msg \in DigestTexts, failAt \in SendFailures :
          ev' = DeliveryEvent("news", msg, failAt, sendDigestChecked(msg, failAt))
    /\ UNCHANGED <<store, convs, impl, repoKind, clock, sched, sent, gen, hist, halted>>

\* the digest of the last 24 hours of continueLast24hFlow
DeliverLast24h ==
    /\ ~halted
    /\ \E msg \in DigestTexts, failAt \in SendFailures :
          ev' = DeliveryEvent("last24h", msg, failAt, sendDigestChecked(msg, failAt))
    /\ UNCHANGED <<store, convs, impl, repoKind, clock, sched, sent, gen, hist, halted>>

\* the first digest that saveTopics sends after the first-time setup
DeliverFirst ==
    /\ ~halted
    /\ \E msg \in DigestTexts, failAt \in SendFailures :
          ev' = DeliveryEvent("first", msg, failAt, sendDigestChecked(msg, failAt))
    /\ UNCHANGED <<store, convs, impl, repoKind, clock, sched, sent, gen, hist, halted>>

\* the scheduled digest of scheduleMessages
DeliverScheduled ==
    /\ ~halted
    /\ \E msg \in DigestTexts, failAt \in SendFailures :
          ev' = DeliveryEvent("scheduled", msg, failAt, sendDigestScheduled(msg, failAt))
    /\ UNCHANGED <<store, convs, impl, repoKind, clock, sched, sent, gen, hist, halted>>

InitChunks == InitWith({"App"}, {"file"}, {[c \in {} |-> ZeroSettings]}, At(0, 12, 0))

NextChunks == DeliverNews \/ DeliverLast24h \/ DeliverFirst \/ DeliverScheduled

SpecChunks == InitChunks /\ [][NextChunks]_vars

\* the number of chunks of at most ChunkLimit runes that n runes make
ChunkCount(n) == (n + ChunkLimit - 1) \div ChunkLimit

\* the i-th chunk of the text
ChunkOf(text, i) ==
    SubSeq(text, (i - 1) * ChunkLimit + 1,
           IF i * ChunkLimit < Len(text) THEN i * ChunkLimit ELSE Len(text))

\* the sends are the chunks of the text in order, up to the first failed one
ChunksUntilFailure(r) ==
    LET n == ChunkCount(Len(r.text))
        last == IF r.failAt \in 1..n THEN r.failAt ELSE n
    IN /\ Len(r.sends) = last
       /\ \A i \in 1..last : r.sends[i].text = ChunkOf(r.text, i)

\* no send of the delivery carries more than the limit
WithinLimit(r) == \A i \in 1..Len(r.sends) : Len(r.sends[i].text) <= ChunkLimit

\* the delivery on one of the paths that test the length
CheckedPaths == {"news", "last24h", "first"}

\* on the paths that test the length no send is above the limit, and a longer text is
\* sent as its chunks in order up to the first failure
ChunkedOnCheckedPaths ==
    (ev.kind = "deliver" /\ ev.route \in CheckedPaths) =>
        LET r == ev.trace[1] IN
        /\ WithinLimit(r)
        /\ Len(r.text) > ChunkLimit => ChunksUntilFailure(r)

\* a text of several chunks was delivered whole on a path that tests the length
ChunkedWhole ==
    /\ ev.kind = "deliver" /\ ev.route = "first"
    /\ Len(ev.trace[1].text) = MaxText
    /\ Len(ev.trace[1].sends) = ChunkCount(MaxText)
    /\ \A i \in 1..Len(ev.trace[1].sends) : ev.trace[1].sends[i].ok

\* a delivery stopped at a failed chunk with chunks left
ChunkedStopped ==
    /\ ev.kind = "deliver" /\ ev.route = "news"
    /\ Len(ev.trace[1].text) = MaxText
    /\ Len(ev.trace[1].sends) = 2 /\ ~ev.trace[1].sends[2].ok

\* C40: no digest text longer than 4096 runes is ever passed to a single transport
\* send: on every delivery path (on-demand, last-24h, the initial digest after the
\* first-time setup, and the scheduled digest) a longer text is split into consecutive
\* chunks of at most 4096 runes, sent in order, whose concatenation is the original
\* text, and sending stops at the first failed chunk
C40_DigestChunked ==
    (ev.kind = "deliver") =>
        LET r == ev.trace[1] IN
        /\ WithinLimit(r)
        /\ Len(r.text) > ChunkLimit => ChunksUntilFailure(r)
====
